---- MODULE Spec2Model ----
(***************************************************************************)
(* State-machine model of the PDF programs of the repository:              *)
(*   merge   (src/merge/src/main.rs)   multi-document merger               *)
(*   a       (src/a/src/main.rs)       paginating document builder         *)
(*   invoice (src/invoice/src/main.rs) single-page invoice builder         *)
(* The programs drive the lopdf crate; the crate's operations they call    *)
(* (renumber_objects_with, get_pages, Dictionary::extend, add_object,      *)
(* build_outline, ...) are modelled by what they do, at their call sites.  *)
(***************************************************************************)
EXTENDS Integers, Sequences, FiniteSets, TLC

(***************************************************************************)
(* Bounds of the model.                                                    *)
(***************************************************************************)
\* number of input files of a merge (the source lists five)
NumDocs == 2
\* largest number of pages of one merge input
MaxPages == 2

(***************************************************************************)
(* lopdf::Object, as tagged values.                                        *)
(***************************************************************************)
Ref(id) == [k |-> "ref", v |-> id]
Name(s) == [k |-> "name", v |-> s]
IntV(n) == [k |-> "int", v |-> n]
Arr(s) == [k |-> "arr", v |-> s]
Dict(d) == [k |-> "dict", v |-> d]

\* Dictionary::new
EmptyDict == [x \in {} |-> IntV(0)]

\* Dictionary::set
DSet(d, key, val) == [x \in DOMAIN d \cup {key} |-> IF x = key THEN val ELSE d[x]]

\* Dictionary::remove
DRemove(d, key) == [x \in DOMAIN d \ {key} |-> d[x]]

\* Object::type_name().unwrap_or("")
type_name(o) ==
    IF o.k \in {"dict", "stream"} /\ "Type" \in DOMAIN o.v /\ o.v["Type"].k = "name"
    THEN o.v["Type"].v ELSE ""

\* BTreeMap::extend / insert of every entry of m into base (m wins)
MapExtend(base, m) ==
    [x \in DOMAIN base \cup DOMAIN m |-> IF x \in DOMAIN m THEN m[x] ELSE base[x]]

EmptyMap == [x \in {} |-> IntV(0)]

Min(S) == CHOOSE x \in S : \A y \in S : x <= y

\* the keys of a BTreeMap in iteration (ascending) order
RECURSIVE AscSeq(_)
AscSeq(S) == IF S = {} THEN <<>> ELSE <<Min(S)>> \o AscSeq(S \ {Min(S)})

Range(s) == {s[i] : i \in DOMAIN s}

RECURSIVE SumSeq(_)
SumSeq(s) == IF s = <<>> THEN 0 ELSE Head(s) + SumSeq(Tail(s))

(***************************************************************************)
(* References held by a value, and their renaming.                         *)
(***************************************************************************)
RECURSIVE RefsOf(_)
RefsOf(val) ==
    CASE val.k = "ref" -> {val.v}
      [] val.k = "arr" -> UNION {RefsOf(val.v[i]) : i \in DOMAIN val.v}
      [] val.k = "dict" -> UNION {RefsOf(val.v[x]) : x \in DOMAIN val.v}
      [] OTHER -> {}

\* the closure `action` of renumber_objects_with applied to every node of val
RECURSIVE MapRefs(_, _)
MapRefs(val, rep) ==
    CASE val.k = "ref" -> IF val.v \in DOMAIN rep THEN Ref(rep[val.v]) ELSE val
      [] val.k = "arr" -> Arr([i \in DOMAIN val.v |-> MapRefs(val.v[i], rep)])
      [] val.k = "dict" -> Dict([x \in DOMAIN val.v |-> MapRefs(val.v[x], rep)])
      [] OTHER -> val

(***************************************************************************)
(* lopdf::Document: [objects, trailer, max_id, bookmarks].                 *)
(***************************************************************************)
\* Document::with_version: empty store, empty trailer, no bookmark
NewDocument == [objects |-> EmptyMap, trailer |-> EmptyDict, max_id |-> 0, bookmarks |-> <<>>]

\* the Kids array of the page-tree node id (PageTreeIter::kids), <<>> if none
KidsOf(objs, id) ==
    IF id \in DOMAIN objs /\ objs[id].k = "dict" /\ "Kids" \in DOMAIN objs[id].v
       /\ objs[id].v["Kids"].k = "arr"
    THEN objs[id].v["Kids"].v ELSE <<>>

\* PageTreeIter::next over one Kids array: Page kids are yielded, Pages kids
\* are descended into (to a depth limit), anything else is skipped
RECURSIVE KidsPages(_, _, _)
KidsPages(objs, kids, depth) ==
    IF kids = <<>> \/ depth = 0 THEN <<>>
    ELSE LET kid == Head(kids)
             here == IF kid.k = "ref" /\ kid.v \in DOMAIN objs
                     THEN CASE type_name(objs[kid.v]) = "Page" -> <<kid.v>>
                            [] type_name(objs[kid.v]) = "Pages" ->
                                   KidsPages(objs, KidsOf(objs, kid.v), depth - 1)
                            [] OTHER -> <<>>
                     ELSE <<>>
         IN here \o KidsPages(objs, Tail(kids), depth)

\* Document::page_iter / get_pages: the page ids in page order, found from
\* trailer Root -> Catalog -> Pages -> Kids
page_iter(doc) ==
    LET tr == doc.trailer
        objs == doc.objects
        cat == IF "Root" \in DOMAIN tr /\ tr["Root"].k = "ref" /\ tr["Root"].v \in DOMAIN objs
                  /\ objs[tr["Root"].v].k = "dict"
               THEN objs[tr["Root"].v].v ELSE EmptyDict
    IN IF "Pages" \in DOMAIN cat /\ cat["Pages"].k = "ref"
       THEN KidsPages(objs, KidsOf(objs, cat["Pages"].v), Cardinality(DOMAIN objs) + 1)
       ELSE <<>>

IsAscending(s) == \A i, j \in DOMAIN s : i < j => s[i] < s[j]

\* mutant: ids are handed out in ascending id order, the page order ignored
RenumberOrderMut(doc) == AscSeq(DOMAIN doc.objects)

\* the old ids in the order renumber_objects_with hands out new ids: when the
\* pages are not in ascending id order the pages come first, in page order,
\* then every other object in ascending id order
RenumberOrder(doc) ==
    LET pages == page_iter(doc)
        first == IF IsAscending(pages) THEN <<>> ELSE pages
    IN first \o AscSeq(DOMAIN doc.objects \ Range(first))

\* the ids Document::traverse_objects visits in store objs: those referenced
\* from the trailer or from a visited object, after renaming by rep
RECURSIVE Traversed(_, _, _)
Traversed(objs, rep, seen) ==
    LET more == UNION {RefsOf(MapRefs(objs[x], rep)) : x \in seen \cap DOMAIN objs}
    IN IF more \subseteq seen THEN seen ELSE Traversed(objs, rep, seen \cup more)

\* Document::renumber_objects_with(starting_id)
renumber_objects_with(doc, starting_id) ==
    LET order == RenumberOrder(doc)
        n == Len(order)
        rep == [old \in Range(order) |->
                   starting_id + (CHOOSE i \in 1..n : order[i] = old) - 1]
        moved == [new \in starting_id..(starting_id + n - 1) |->
                     doc.objects[order[new - starting_id + 1]]]
        trailer == MapRefs(Dict(doc.trailer), rep).v
        seen == Traversed(moved, rep, RefsOf(Dict(trailer)))
    IN [objects |-> [new \in DOMAIN moved |->
                        IF new \in seen THEN MapRefs(moved[new], rep) ELSE moved[new]],
        trailer |-> trailer,
        max_id |-> starting_id + n - 1,
        bookmarks |-> [i \in DOMAIN doc.bookmarks |->
                          IF doc.bookmarks[i].page \in DOMAIN rep
                          THEN [doc.bookmarks[i] EXCEPT !.page = rep[@]]
                          ELSE doc.bookmarks[i]]]

\* Dictionary::extend(&mut self, other) of lopdf: the result is built over the
\* keys of other; a key both hold is combined by the variants of its two
\* values (self_v is self's value, other_v is other's)
RECURSIVE DictExtend(_, _)
DictExtend(self, other) ==
    LET Both(self_v, other_v) ==
            CASE self_v.k = "dict" /\ other_v.k = "dict" ->
                     Dict(DictExtend(self_v.v, other_v.v))
              [] self_v.k = "arr" /\ other_v.k = "arr" -> Arr(self_v.v \o other_v.v)
              [] self_v.k = "int" /\ other_v.k = "int" -> Arr(<<self_v, other_v>>)
              [] self_v.k = "ref" /\ other_v.k = "ref" -> Arr(<<self_v, other_v>>)
              [] self_v.k = "name" -> self_v
              [] other_v.k = "arr" -> Arr(<<self_v>> \o other_v.v)
              [] OTHER -> Arr(<<other_v, self_v>>)
    IN [x \in DOMAIN other |->
           IF x \in DOMAIN self THEN Both(self[x], other[x]) ELSE other[x]]

\* Dictionary::extend(&mut self, other) of the lopdf releases that insert every
\* entry of other into self
DictInsertAll(self, other) ==
    [x \in DOMAIN self \cup DOMAIN other |-> IF x \in DOMAIN other THEN other[x] ELSE self[x]]

\* the lopdf releases the program can be built against differ in Dictionary::extend
ExtendBuilds == {"insert", "combine"}

\* dictionary.extend(old_dictionary) as the build in use computes it
extend(build, self, other) ==
    IF build = "insert" THEN DictInsertAll(self, other) ELSE DictExtend(self, other)

\* mutant: the new bookmark goes in front of the earlier ones
add_bookmark_Mut(doc, bookmark) == [doc EXCEPT !.bookmarks = <<bookmark>> \o @]

\* Document::add_bookmark(bookmark, None)
add_bookmark(doc, bookmark) == [doc EXCEPT !.bookmarks = Append(@, bookmark)]

\* Document::adjust_zero_pages: a bookmark of page (0,0) is pointed at the first page
adjust_zero_pages(doc) ==
    LET pages == page_iter(doc)
    IN IF pages = <<>> THEN doc
       ELSE [doc EXCEPT !.bookmarks =
                [i \in DOMAIN @ |-> IF @[i].page = 0 THEN [@[i] EXCEPT !.page = pages[1]]
                                    ELSE @[i]]]

\* mutant: the outline root takes the last id in use
OutlineRootMut(doc) == doc.max_id

\* the id Document::build_outline returns: the outline root, a fresh id
OutlineRoot(doc) == doc.max_id + 1

\* Document::build_outline: nothing without bookmarks; otherwise an outline
\* root and one outline item per bookmark, all under fresh ids
build_outline(doc) ==
    LET n == Len(doc.bookmarks)
        root == OutlineRoot(doc)
        item(i) == Dict([Title |-> IntV(doc.bookmarks[i].title),
                         Parent |-> Ref(root),
                         Dest |-> Arr(<<Ref(doc.bookmarks[i].page), Name("Fit")>>)])
        tree == [id \in root..(root + n) |->
                    IF id = root
                    THEN Dict([Count |-> IntV(n), First |-> Ref(root + 1), Last |-> Ref(root + n)])
                    ELSE item(id - root)]
    IN IF n = 0 THEN doc
       ELSE [doc EXCEPT !.objects = MapExtend(@, tree), !.max_id = root + n]

(***************************************************************************)
(* The input files of a merge.  A shape fixes what a file holds:           *)
(*   cat    "none": no Catalog; "low": the Catalog has the lowest id;      *)
(*          "high": an Outlines object has the lowest id and the Catalog,  *)
(*                  which references it, the highest                       *)
(*   np     -1: no Pages object; otherwise the number of pages             *)
(*   rev    the pages' ids descend in page order                           *)
(*   nested the pages hang under an intermediate Pages node                *)
(***************************************************************************)
Shapes ==
    {sh \in [cat : {"none", "low", "high"}, np : -1..MaxPages,
             rev : BOOLEAN, nested : BOOLEAN] :
        /\ sh.rev => sh.np >= 2
        /\ sh.nested => sh.np = 1}

\* the objects of a file of shape sh, in id order
Roles(sh) ==
    LET pg(i) == [r |-> "page", n |-> IF sh.rev THEN sh.np + 1 - i ELSE i]
        one(r) == <<[r |-> r, n |-> 0]>>
    IN (IF sh.cat = "low" THEN one("cat") ELSE <<>>)
       \o (IF sh.cat = "high" THEN one("outl") ELSE <<>>)
       \o (IF sh.np >= 0
           THEN one("root") \o (IF sh.nested THEN one("mid") ELSE <<>>)
                \o [i \in 1..sh.np |-> pg(i)] \o one("res")
           ELSE <<>>)
       \o (IF sh.cat = "high" THEN one("cat") ELSE <<>>)

\* the k-th input file as Document::load returns it; the Content entries
\* stand for what distinguishes one file's objects from another's
MkDoc(sh, k) ==
    LET roles == Roles(sh)
        idOf(r, n) == CHOOSE i \in DOMAIN roles : roles[i] = [r |-> r, n |-> n]
        pageRefs == [i \in 1..sh.np |-> Ref(idOf("page", i))]
        obj(role) ==
            CASE role.r = "cat" ->
                     LET base == [Type |-> Name("Catalog"), Content |-> IntV(100 * k)]
                         withPages == IF sh.np >= 0 THEN DSet(base, "Pages", Ref(idOf("root", 0)))
                                      ELSE base
                     IN Dict(IF sh.cat = "high"
                             THEN DSet(withPages, "Outlines", Ref(idOf("outl", 0)))
                             ELSE withPages)
              [] role.r = "outl" -> Dict([Type |-> Name("Outlines"), Count |-> IntV(0)])
              [] role.r = "root" ->
                     Dict([Type |-> Name("Pages"), Count |-> IntV(sh.np),
                           Kids |-> Arr(IF sh.nested THEN <<Ref(idOf("mid", 0))>> ELSE pageRefs),
                           Resources |-> Ref(idOf("res", 0))])
              [] role.r = "mid" ->
                     Dict([Type |-> Name("Pages"), Count |-> IntV(sh.np),
                           Kids |-> Arr(pageRefs), Parent |-> Ref(idOf("root", 0))])
              [] role.r = "page" ->
                     Dict([Type |-> Name("Page"), Content |-> IntV(100 * k + role.n),
                           Parent |-> Ref(idOf(IF sh.nested THEN "mid" ELSE "root", 0))])
              [] OTHER -> Dict([Content |-> IntV(100 * k)])
    IN [objects |-> [i \in DOMAIN roles |-> obj(roles[i])],
        trailer |-> IF sh.cat = "none" THEN EmptyDict ELSE [Root |-> Ref(idOf("cat", 0))],
        max_id |-> Len(roles),
        bookmarks |-> <<>>]

(***************************************************************************)
(* merge: src/merge/src/main.rs, fn main.                                  *)
(***************************************************************************)
VARIABLES
    pc,                 \* position in main
    loaded,             \* the input files read so far, as renumbered (history)
    max_id,             \* the running start index of object ids
    pagenum,            \* the bookmark title counter
    documents_pages,    \* BTreeMap<ObjectId, Object> of the inputs' pages
    documents_objects,  \* BTreeMap<ObjectId, Object> of the inputs' objects
    document,           \* the merged Document
    catalog_object,     \* Option<(ObjectId, Object)>
    pages_object,       \* Option<(ObjectId, Object)>
    outline,            \* what build_outline returned: 0 for None, else the id
    saved,              \* merged.pdf has been written
    result              \* what main returned: "none" while running, "Ok", "Err"

VARIABLES
    b_prog,             \* the builder that runs: "a" or "invoice"
    b_pc,               \* position in the builder
    b_doc,              \* the Document being built
    b_pages_id,         \* parent_pages_id (a), pages_id_tuple (invoice)
    a_items,            \* a: the content items consumed so far (history)
    a_item,             \* a: the item of the current loop iteration
    current_operations, \* a: the operations of the page being filled
    current_y,          \* a: the vertical cursor
    sig_px,             \* a: signature_image_width_px (w) and _height_px (h)
    sig_id,             \* a: signature_xobject_id
    a_added,            \* a: pages added so far (history)
    inv_images,         \* invoice: image1_id and new_image_ids
    inv_call,           \* invoice: the last call of create_image_xobject (history)
    inv_page_id,        \* invoice: page_id_tuple
    b_result,           \* what the builder returned: "none", "Ok", "Err"
    b_saved             \* the output file has been written

buildVars == <<b_prog, b_pc, b_doc, b_pages_id, a_items, a_item, current_operations,
               current_y, sig_px, sig_id, a_added, inv_images, inv_call, inv_page_id,
               b_result, b_saved>>

mergeVars == <<pc, loaded, max_id, pagenum, documents_pages, documents_objects,
               document, catalog_object, pages_object, outline, saved, result>>

VARIABLES
    i_prog,             \* dsign or sign
    i_pc,               \* position in add_png_image_to_pdf ("idle" between calls)
    i_doc,              \* doc
    i_page_id,          \* page_id
    i_file,             \* what decoding the image file gives: an error or a raster
    i_call,             \* the call under way: its arguments and the ids it has registered
    i_before,           \* doc as it was when the call under way began (history)
    i_calls,            \* the names of the calls that returned Ok, in call order (history)
    i_result            \* what the last call returned: "none", "Ok", "Err"

imageVars == <<i_prog, i_pc, i_doc, i_page_id, i_file, i_call, i_before, i_calls, i_result>>

VARIABLES
    t_pc,               \* "text": a string in hand; "written": its bytes; "read": decoded
    t_text,             \* the &str handed to invoice (a sequence of Unicode scalar values)
    t_how,              \* how invoice wrote it: "unicode" or "literal"
    t_bytes,            \* the bytes of the Object::String
    t_out               \* what pd_air's decode_text_bytes returned

textVars == <<t_pc, t_text, t_how, t_bytes, t_out>>

None == [some |-> FALSE]
Some(id, obj) == [some |-> TRUE, id |-> id, obj |-> obj]

\* mutant: the next input starts at the last id of this one
NextStartMut(doc) == doc.max_id

\* the start index handed to the next input (line 38)
NextStart(doc) == doc.max_id + 1

\* the inputs' pages as collected into documents_pages (lines 40-59)
CollectPages(doc) == [id \in Range(page_iter(doc)) |-> doc.objects[id]]

\* one iteration of `for mut doc in documents` (lines 34-61)
MergeLoad ==
    /\ pc = "load"
    /\ UNCHANGED <<buildVars, imageVars, textVars>>
    /\ \E sh \in Shapes :
         LET k == Len(loaded) + 1
             doc == renumber_objects_with(MkDoc(sh, k), max_id)
             pages == page_iter(doc)
         IN /\ max_id' = NextStart(doc)
            /\ document' = IF pages = <<>> THEN document
                           ELSE add_bookmark(document, [title |-> pagenum, page |-> pages[1]])
            /\ pagenum' = IF pages = <<>> THEN pagenum ELSE pagenum + 1
            /\ documents_pages' = MapExtend(documents_pages, CollectPages(doc))
            /\ documents_objects' = MapExtend(documents_objects, doc.objects)
            /\ loaded' = Append(loaded, [shape |-> sh, doc |-> doc, pages |-> pages])
            /\ pc' = IF k = NumDocs THEN "collect" ELSE "load"
    /\ UNCHANGED <<catalog_object, pages_object, outline, saved, result>>

\* the "Catalog" arm (lines 70-79)
CatalogArm(cat, object_id, object) ==
    Some(IF cat.some THEN cat.id ELSE object_id, object)

\* the "Pages" arm (lines 80-98)
PagesArm(pgs, object_id, object, build) ==
    LET dictionary == IF pgs.some /\ pgs.obj.k = "dict"
                      THEN extend(build, object.v, pgs.obj.v) ELSE object.v
    IN Some(IF pgs.some THEN pgs.id ELSE object_id, Dict(dictionary))

\* mutant: only the pages are left out
IgnoredTypesMut == {"Page"}

\* the types of the arms that do nothing (lines 99-101)
IgnoredTypes == {"Page", "Outlines", "Outline"}

\* `for (object_id, object) in documents_objects.iter()` (lines 68-106)
RECURSIVE CollectObjects(_, _, _, _)
CollectObjects(ids, objs, acc, build) ==
    IF ids = <<>> THEN acc
    ELSE LET object_id == Head(ids)
             object == objs[object_id]
             t == type_name(object)
             next ==
                 CASE t = "Catalog" ->
                          [acc EXCEPT !.cat = CatalogArm(acc.cat, object_id, object)]
                   [] t = "Pages" ->
                          [acc EXCEPT !.pgs = PagesArm(acc.pgs, object_id, object, build)]
                   [] t \in IgnoredTypes -> acc
                   [] OTHER -> [acc EXCEPT !.objects = MapExtend(@, (object_id :> object))]
         IN CollectObjects(Tail(ids), objs, next, build)

MergeCollect ==
    /\ pc = "collect"
    /\ UNCHANGED <<buildVars, imageVars, textVars>>
    /\ \E build \in ExtendBuilds :
         LET acc == CollectObjects(AscSeq(DOMAIN documents_objects), documents_objects,
                                   [cat |-> None, pgs |-> None, objects |-> document.objects],
                                   build)
         IN /\ catalog_object' = acc.cat
            /\ pages_object' = acc.pgs
            /\ document' = [document EXCEPT !.objects = acc.objects]
    /\ pc' = "check_pages"
    /\ UNCHANGED <<loaded, max_id, pagenum, documents_pages, documents_objects,
                   outline, saved, result>>

\* what main returns when a mandatory object is missing (lines 110, 127)
MissingResult == "Ok"

\* `if pages_object.is_none()` (lines 108-111)
MergePagesNotFound ==
    /\ pc = "check_pages"
    /\ UNCHANGED <<buildVars, imageVars, textVars>>
    /\ ~pages_object.some
    /\ pc' = "done"
    /\ result' = MissingResult
    /\ UNCHANGED <<loaded, max_id, pagenum, documents_pages, documents_objects,
                   document, catalog_object, pages_object, outline, saved>>

\* mutant: the page keeps the Parent of its source document
ReparentMut(object, pages_id) == object

\* a page re-parented to the unified Pages id (lines 115-117)
Reparent(object, pages_id) == Dict(DSet(object.v, "Parent", Ref(pages_id)))

\* `for (object_id, object) in documents_pages.iter()` (lines 113-123)
MergeProcessPages ==
    /\ pc = "check_pages"
    /\ UNCHANGED <<buildVars, imageVars, textVars>>
    /\ pages_object.some
    /\ document' = [document EXCEPT !.objects =
                       MapExtend(@, [id \in {x \in DOMAIN documents_pages :
                                                documents_pages[x].k = "dict"} |->
                                        Reparent(documents_pages[id], pages_object.id)])]
    /\ pc' = "check_catalog"
    /\ UNCHANGED <<loaded, max_id, pagenum, documents_pages, documents_objects,
                   catalog_object, pages_object, outline, saved, result>>

\* `if catalog_object.is_none()` (lines 125-128)
MergeCatalogNotFound ==
    /\ pc = "check_catalog"
    /\ UNCHANGED <<buildVars, imageVars, textVars>>
    /\ ~catalog_object.some
    /\ pc' = "done"
    /\ result' = MissingResult
    /\ UNCHANGED <<loaded, max_id, pagenum, documents_pages, documents_objects,
                   document, catalog_object, pages_object, outline, saved>>

\* the Kids array of the unified Pages dictionary (lines 137-143)
MergedKids == [i \in 1..Cardinality(DOMAIN documents_pages) |->
                  Ref(AscSeq(DOMAIN documents_pages)[i])]

\* mutant: the Count of the first input alone
MergedCountMut == Len(loaded[1].pages)

\* the Count of the unified Pages dictionary (line 136)
MergedCount == Cardinality(DOMAIN documents_pages)

\* "Update pages dictionary" (lines 133-148)
MergeUpdatePages ==
    /\ pc = "check_catalog"
    /\ UNCHANGED <<buildVars, imageVars, textVars>>
    /\ catalog_object.some
    /\ document' =
           IF pages_object.obj.k = "dict"
           THEN [document EXCEPT !.objects =
                    MapExtend(@, (pages_object.id :>
                        Dict(DSet(DSet(pages_object.obj.v, "Count", IntV(MergedCount)),
                                  "Kids", Arr(MergedKids)))))]
           ELSE document
    /\ pc' = "update_catalog"
    /\ UNCHANGED <<loaded, max_id, pagenum, documents_pages, documents_objects,
                   catalog_object, pages_object, outline, saved, result>>

\* mutant: the Outlines entry of the source Catalog is kept
MergedCatalogMut == DSet(catalog_object.obj.v, "Pages", Ref(pages_object.id))

\* the unified Catalog dictionary (lines 152-154)
MergedCatalog == DRemove(DSet(catalog_object.obj.v, "Pages", Ref(pages_object.id)), "Outlines")

\* "Update catalog dictionary" (lines 150-159)
MergeUpdateCatalog ==
    /\ pc = "update_catalog"
    /\ UNCHANGED <<buildVars, imageVars, textVars>>
    /\ document' =
           IF catalog_object.obj.k = "dict"
           THEN [document EXCEPT !.objects =
                    MapExtend(@, (catalog_object.id :> Dict(MergedCatalog)))]
           ELSE document
    /\ pc' = "renumber"
    /\ UNCHANGED <<loaded, max_id, pagenum, documents_pages, documents_objects,
                   catalog_object, pages_object, outline, saved, result>>

\* trailer Root, max_id, renumber_objects, adjust_zero_pages (lines 161-164)
MergeRenumber ==
    /\ pc = "renumber"
    /\ UNCHANGED <<buildVars, imageVars, textVars>>
    /\ document' =
           adjust_zero_pages(renumber_objects_with(
               [document EXCEPT !.trailer = DSet(@, "Root", Ref(catalog_object.id)),
                                !.max_id = Cardinality(DOMAIN document.objects)], 1))
    /\ pc' = "outline"
    /\ UNCHANGED <<loaded, max_id, pagenum, documents_pages, documents_objects,
                   catalog_object, pages_object, outline, saved, result>>

\* the id the Outlines entry is written under (line 168)
OutlinesHolder == catalog_object.id

\* "Add bookmarks to outline" (lines 166-173)
MergeOutline ==
    /\ pc = "outline"
    /\ UNCHANGED <<buildVars, imageVars, textVars>>
    /\ LET built == build_outline(document)
           n == OutlineRoot(document)
       IN IF document.bookmarks = <<>>
          THEN /\ document' = built
               /\ outline' = 0
          ELSE /\ outline' = n
               /\ document' =
                      IF OutlinesHolder \in DOMAIN built.objects
                         /\ built.objects[OutlinesHolder].k = "dict"
                      THEN [built EXCEPT !.objects[OutlinesHolder] =
                               Dict(DSet(@.v, "Outlines", Ref(n)))]
                      ELSE built
    /\ pc' = "save"
    /\ UNCHANGED <<loaded, max_id, pagenum, documents_pages, documents_objects,
                   catalog_object, pages_object, saved, result>>

\* compress, save, Ok(()) (lines 175-181)
MergeSave ==
    /\ pc = "save"
    /\ UNCHANGED <<buildVars, imageVars, textVars>>
    /\ saved' = TRUE
    /\ result' = "Ok"
    /\ pc' = "done"
    /\ UNCHANGED <<loaded, max_id, pagenum, documents_pages, documents_objects,
                   document, catalog_object, pages_object, outline>>

MergeNext ==
    \/ MergeLoad
    \/ MergeCollect
    \/ MergePagesNotFound
    \/ MergeProcessPages
    \/ MergeCatalogNotFound
    \/ MergeUpdatePages
    \/ MergeUpdateCatalog
    \/ MergeRenumber
    \/ MergeOutline
    \/ MergeSave


(***************************************************************************)
(* The builders share lopdf's object registration.                         *)
(***************************************************************************)
Str(s) == [k |-> "str", v |-> s]
Stream(d, data) == [k |-> "stream", v |-> d, data |-> data]

\* Document::add_object: the value is stored under the next unused id
add_object(doc, obj) ==
    [doc EXCEPT !.max_id = @ + 1, !.objects = MapExtend(@, ((doc.max_id + 1) :> obj))]

\* a dictionary object with a Kids array (get_object_mut, as_dict_mut, get_mut, as_array_mut)
HasKidsArray(doc, id) ==
    /\ id \in DOMAIN doc.objects
    /\ doc.objects[id].k = "dict"
    /\ "Kids" \in DOMAIN doc.objects[id].v
    /\ doc.objects[id].v["Kids"].k = "arr"

(***************************************************************************)
(* a: src/a/src/main.rs.  Lengths are whole points: the inputs are chosen  *)
(* so that every f32 the code computes from them is exact.                 *)
(***************************************************************************)
PAGE_MARGIN == 72
PAGE_WIDTH_PT == 595
PAGE_HEIGHT_PT == 842
IMAGE_SCALE_FACTOR == 2

\* the largest number of content items of one build
MaxItems == 3

\* signature_line_text_trigger (main, line 168)
SignatureTrigger == "Signature: "

\* the content items a build may be given: a text, a size, a space_after
ItemKinds ==
    {[text |-> "a", size |-> 11, space_after |-> 0],
     [text |-> "b", size |-> 11, space_after |-> 33],
     [text |-> "c", size |-> 400, space_after |-> 0],
     [text |-> "d", size |-> 300, space_after |-> 400],
     [text |-> "e", size |-> 700, space_after |-> 0],
     [text |-> SignatureTrigger, size |-> 10, space_after |-> 16]}

\* the sizes in pixels of the rendered signature image
SigSizesPx == {[w |-> 40, h |-> 20], [w |-> 400, h |-> 200], [w |-> 300, h |-> 1500]}

\* the number of characters of the signature trigger text
SignatureTriggerChars == 11

Max(a, b) == IF a >= b THEN a ELSE b

\* mutant: the content stream is pushed in place of the page
PushKidMut(kids, page_id) == Append(kids, Ref(page_id - 1))

\* the Kids array after a page is appended (kids.push, line 440)
PushKid(kids, page_id) == Append(kids, Ref(page_id))

\* mutant: the Count misses the last page
FinalCountMut(kids) == Len(kids) - 1

\* the Count written at the end of the build (line 596)
FinalCount(kids) == Len(kids)

\* mutant: a page is made of an empty operation list too
NothingPendingMut(operations) == FALSE

\* `if !operations.is_empty()` (line 404), negated
NothingPending(operations) == operations = <<>>

\* finalize_page_and_create_new (lines 396-443): with operations pending, a
\* content stream and a Page are registered and the Page is pushed to the
\* parent's Kids; the result is an empty operation list and the top cursor
finalize_page_and_create_new(doc, operations, parent_pages_id, signature_xobject_id) ==
    IF NothingPending(operations)
    THEN [doc |-> doc, err |-> FALSE, added |-> 0]
    ELSE LET d1 == add_object(doc, Stream(EmptyDict, operations))
             content_stream_id == d1.max_id
             resources ==
                 [Font |-> Dict([F1 |-> Dict([Type |-> Name("Font"), Subtype |-> Name("Type1"),
                                              BaseFont |-> Name("Helvetica")]),
                                 F2 |-> Dict([Type |-> Name("Font"), Subtype |-> Name("Type1"),
                                              BaseFont |-> Name("Helvetica-Bold")])]),
                  XObject |-> Dict([Im0 |-> Ref(signature_xobject_id)])]
             d2 == add_object(d1,
                       Dict([Type |-> Name("Page"),
                             Parent |-> Ref(parent_pages_id),
                             Resources |-> Dict(resources),
                             MediaBox |-> Arr(<<IntV(0), IntV(0), IntV(PAGE_WIDTH_PT),
                                                IntV(PAGE_HEIGHT_PT)>>),
                             Contents |-> Ref(content_stream_id)]))
             page_id == d2.max_id
         IN IF HasKidsArray(d2, parent_pages_id)
            THEN [doc |-> [d2 EXCEPT !.objects[parent_pages_id].v["Kids"].v = PushKid(@, page_id)],
                  err |-> FALSE, added |-> 1]
            ELSE [doc |-> d2, err |-> TRUE, added |-> 0]

Op(name, operands) == [name |-> name, operands |-> operands]

\* mutant: a page starts at its upper edge
TopCursorMut == PAGE_HEIGHT_PT

\* the cursor a page starts with (lines 442, 458)
TopCursor == PAGE_HEIGHT_PT - PAGE_MARGIN

\* mutant: the bottom margin is left out of the test
BelowMarginMut(y, height) == y - height < 0

\* `current_y - item_height_estimate < PAGE_MARGIN` (lines 497, 550)
BelowMargin(y, height) == y - height < PAGE_MARGIN

\* item_height_estimate (lines 490-495)
item_height_estimate(el) ==
    IF el.text = SignatureTrigger
    THEN Max(el.size, sig_px.h \div IMAGE_SCALE_FACTOR)
    ELSE el.size

\* mutant: an item taller than the page body is rejected
ItemOperationsMut(el, y) ==
    IF el.size > PAGE_HEIGHT_PT - 2 * PAGE_MARGIN THEN <<>>
    ELSE <<Op("BT", <<>>), Op("Tj", <<Str(el.text)>>), Op("ET", <<>>)>>

\* mutant: the text object is left open
ItemOperationsOpen(el, y) ==
    <<Op("BT", <<>>), Op("Tf", <<Name("F1"), IntV(el.size)>>),
      Op("Td", <<IntV(PAGE_MARGIN), IntV(y)>>), Op("Tj", <<Str(el.text)>>)>>

\* the operations of one text item at cursor y (lines 510-548)
ItemOperations(el, y) ==
    LET x_pos == PAGE_MARGIN
        text_ops == <<Op("BT", <<>>),
                      Op("Tf", <<Name("F1"), IntV(el.size)>>),
                      Op("Td", <<IntV(x_pos), IntV(y)>>),
                      Op("Tj", <<Str(el.text)>>),
                      Op("ET", <<>>)>>
        sig_x == x_pos + (SignatureTriggerChars * el.size * 6) \div 10 + 5
        sig_ops == <<Op("q", <<>>),
                     Op("cm", <<IntV(sig_px.w \div IMAGE_SCALE_FACTOR), IntV(0), IntV(0),
                                IntV(sig_px.h \div IMAGE_SCALE_FACTOR), IntV(sig_x), IntV(y - 5)>>),
                     Op("Do", <<Name("Im0")>>),
                     Op("Q", <<>>)>>
    IN IF el.text = SignatureTrigger THEN text_ops \o sig_ops ELSE text_ops

\* main, lines 163-167: an empty Pages root, the Catalog, the trailer's Root
ADocument ==
    LET d1 == add_object(NewDocument,
                  Dict([Type |-> Name("Pages"), Kids |-> Arr(<<>>), Count |-> IntV(0)]))
        d2 == add_object(d1, Dict([Type |-> Name("Catalog"), Pages |-> Ref(d1.max_id)]))
    IN [d2 EXCEPT !.trailer = DSet(@, "Root", Ref(d2.max_id))]

\* create_document_with_text_and_signature, lines 457-481: the signature is
\* encoded as JPEG and registered, or the encoding fails and Err is returned
AStart ==
    /\ b_prog = "a" /\ b_pc = "start"
    /\ UNCHANGED <<mergeVars, imageVars, textVars>>
    /\ \E px \in SigSizesPx, jpeg_ok \in BOOLEAN :
         /\ sig_px' = px
         /\ current_operations' = <<>>
         /\ current_y' = TopCursor
         /\ IF jpeg_ok
            THEN /\ b_doc' = add_object(b_doc, Stream([Type |-> Name("XObject"),
                                 Subtype |-> Name("Image"),
                                 Width |-> IntV(px.w), Height |-> IntV(px.h),
                                 ColorSpace |-> Name("DeviceRGB"), BitsPerComponent |-> IntV(8),
                                 Filter |-> Name("DCTDecode")], <<>>))
                 /\ sig_id' = b_doc.max_id + 1
                 /\ b_pc' = "loop"
                 /\ b_result' = b_result
            ELSE /\ b_pc' = "done"
                 /\ b_result' = "Err"
                 /\ UNCHANGED <<b_doc, sig_id>>
    /\ UNCHANGED <<b_prog, b_pages_id, a_items, a_item, a_added, inv_images, inv_call, inv_page_id, b_saved>>

\* one item of content_items: the page break before it (lines 482-506)
AItemBreak ==
    /\ b_prog = "a" /\ b_pc = "loop"
    /\ UNCHANGED <<mergeVars, imageVars, textVars>>
    /\ Len(a_items) < MaxItems
    /\ \E el \in ItemKinds :
         LET fin == finalize_page_and_create_new(b_doc, current_operations, b_pages_id, sig_id)
             break == BelowMargin(current_y, item_height_estimate(el))
                      /\ current_operations # <<>>
         IN /\ a_item' = el
            /\ a_items' = Append(a_items, el)
            /\ IF break
               THEN /\ b_doc' = fin.doc
                    /\ a_added' = a_added + fin.added
                    /\ IF fin.err
                       THEN /\ b_pc' = "done"
                            /\ b_result' = "Err"
                            /\ UNCHANGED <<current_operations, current_y>>
                       ELSE /\ b_pc' = "emit"
                            /\ current_operations' = <<>>
                            /\ current_y' = TopCursor
                            /\ b_result' = b_result
               ELSE /\ b_pc' = "emit"
                    /\ UNCHANGED <<b_doc, a_added, current_operations, current_y, b_result>>
    /\ UNCHANGED <<b_prog, b_pages_id, sig_px, sig_id, inv_images, inv_call, inv_page_id, b_saved>>

\* the item's operations at the lowered cursor (lines 508-548)
AItemEmit ==
    /\ b_prog = "a" /\ b_pc = "emit"
    /\ UNCHANGED <<mergeVars, imageVars, textVars>>
    /\ current_y' = current_y - a_item.size
    /\ current_operations' = current_operations \o ItemOperations(a_item, current_y - a_item.size)
    /\ b_pc' = "space"
    /\ UNCHANGED <<b_prog, b_doc, b_pages_id, a_items, a_item, sig_px, sig_id, a_added,
                   inv_images, inv_call, inv_page_id, b_result, b_saved>>

\* the space after the item, or the page break it triggers (lines 550-559)
AItemSpace ==
    /\ b_prog = "a" /\ b_pc = "space"
    /\ UNCHANGED <<mergeVars, imageVars, textVars>>
    /\ LET fin == finalize_page_and_create_new(b_doc, current_operations, b_pages_id, sig_id)
       IN IF BelowMargin(current_y, a_item.space_after) /\ a_item.space_after > 0
          THEN /\ b_doc' = fin.doc
               /\ a_added' = a_added + fin.added
               /\ IF fin.err
                  THEN /\ b_pc' = "done"
                       /\ b_result' = "Err"
                       /\ UNCHANGED <<current_operations, current_y>>
                  ELSE /\ b_pc' = "loop"
                       /\ current_operations' = <<>>
                       /\ current_y' = TopCursor
                       /\ b_result' = b_result
          ELSE /\ current_y' = current_y - a_item.space_after
               /\ b_pc' = "loop"
               /\ UNCHANGED <<b_doc, a_added, current_operations, b_result>>
    /\ UNCHANGED <<b_prog, b_pages_id, a_items, a_item, sig_px, sig_id,
                   inv_images, inv_call, inv_page_id, b_saved>>

\* after the last item: the pending operations become the last page (lines 564-573)
AFinalPage ==
    /\ b_prog = "a" /\ b_pc = "loop"
    /\ UNCHANGED <<mergeVars, imageVars, textVars>>
    /\ LET fin == finalize_page_and_create_new(b_doc, current_operations, b_pages_id, sig_id)
       IN /\ b_doc' = fin.doc
          /\ a_added' = a_added + fin.added
          /\ IF fin.err
             THEN b_pc' = "done" /\ b_result' = "Err"
             ELSE b_pc' = "count" /\ b_result' = b_result
    /\ UNCHANGED <<b_prog, b_pages_id, a_items, a_item, current_operations, current_y,
                   sig_px, sig_id, inv_images, inv_call, inv_page_id, b_saved>>

\* the final Count (lines 575-598)
ASetCount ==
    /\ b_prog = "a" /\ b_pc = "count"
    /\ UNCHANGED <<mergeVars, imageVars, textVars>>
    /\ IF HasKidsArray(b_doc, b_pages_id)
       THEN /\ b_doc' = [b_doc EXCEPT !.objects[b_pages_id].v =
                            DSet(@, "Count", IntV(FinalCount(@["Kids"].v)))]
            /\ b_result' = "Ok"
            /\ b_pc' = "save"
       ELSE /\ b_result' = "Err"
            /\ b_pc' = "done"
            /\ b_doc' = b_doc
    /\ UNCHANGED <<b_prog, b_pages_id, a_items, a_item, current_operations, current_y,
                   sig_px, sig_id, a_added, inv_images, inv_call, inv_page_id, b_saved>>

\* main, lines 281-287: the document is saved only when the build returned Ok
ASave ==
    /\ b_prog = "a" /\ b_pc = "save"
    /\ UNCHANGED <<mergeVars, imageVars, textVars>>
    /\ b_saved' = TRUE
    /\ b_pc' = "done"
    /\ UNCHANGED <<b_prog, b_doc, b_pages_id, a_items, a_item, current_operations, current_y,
                   sig_px, sig_id, a_added, inv_images, inv_call, inv_page_id, b_result>>

(***************************************************************************)
(* invoice: src/invoice/src/main.rs, fn main.                              *)
(***************************************************************************)
\* example.jpg and the four new_image files (lines 306-312)
InvoiceImages == 5

\* the size a JPEG file may not exceed (line 91)
MaxJpegBytes == 10000000

\* the image files create_image_xobject may be given: one that cannot be
\* opened, and files of a length in bytes, with or without the SOI marker
\* FF D8 in front, whose header is unreadable or names a pixel format
JpegFiles ==
    {[opens |-> FALSE, len |-> 0, soi |-> FALSE, header |-> "unreadable"]}
    \cup {f \in [opens : {TRUE}, len : {1, 2, MaxJpegBytes, MaxJpegBytes + 1},
                  soi : BOOLEAN, header : {"unreadable", "L8", "L16", "RGB24", "CMYK32"}] :
             /\ f.soi => f.len >= 2
             /\ f.header # "unreadable" => f.soi /\ f.len > 2}

\* mutant: 16-bit gray is taken for a supported format
SupportedFormatMut(fmt) == fmt \in {"L8", "L16", "RGB24", "CMYK32"}

\* the pixel formats with an arm of their own in `match info.pixel_format`
\* (lines 114-143)
SupportedFormat(fmt) == fmt \in {"L8", "RGB24", "CMYK32"}

\* what reading one image file comes to in create_image_xobject (lines 76-155)
ImageOutcomes == {"open_failed", "no_soi", "too_large", "bad_header", "unsupported",
                  "L8", "RGB24", "CMYK32"}

\* the outcome of create_image_xobject on a file, in the order of its checks
OutcomeOf(file) ==
    IF ~file.opens THEN "open_failed"
    ELSE IF file.len < 2 \/ ~file.soi THEN "no_soi"
    ELSE IF file.len > MaxJpegBytes THEN "too_large"
    ELSE IF file.header = "unreadable" THEN "bad_header"
    ELSE IF ~SupportedFormat(file.header) THEN "unsupported"
    ELSE file.header

\* the ColorSpace of a supported pixel format (lines 114-143)
ColorSpaceOf(fmt) ==
    CASE fmt = "L8" -> "DeviceGray"
      [] fmt = "RGB24" -> "DeviceRGB"
      [] OTHER -> "DeviceCMYK"

\* image_xobject_dict for a file of a supported format (lines 97-151)
JpegDictionary(file) ==
    LET d == [Type |-> Name("XObject"), Subtype |-> Name("Image"),
              ColorSpace |-> Name(ColorSpaceOf(file.header)),
              BitsPerComponent |-> IntV(8),
              Filter |-> Name("DCTDecode")]
    IN IF file.header = "CMYK32"
       THEN DSet(d, "Decode", Arr(<<IntV(1), IntV(0), IntV(1), IntV(0),
                                    IntV(1), IntV(0), IntV(1), IntV(0)>>))
       ELSE d

\* create_image_xobject: an unreadable or unsupported file adds nothing and
\* is an error, whose text names the pixel format when that is the cause; a
\* supported one adds one DCTDecode stream holding the bytes of the file
create_image_xobject(doc, file) ==
    LET outcome == OutcomeOf(file)
    IN IF outcome \in {"L8", "RGB24", "CMYK32"}
       THEN [doc |-> add_object(doc, Stream(JpegDictionary(file), file)),
             err |-> FALSE, error |-> "", names |-> ""]
       ELSE [doc |-> doc, err |-> TRUE, error |-> outcome,
             names |-> IF outcome = "unsupported" THEN file.header ELSE ""]

\* no call of create_image_xobject has been made
NoImageCall ==
    [made |-> FALSE, file |-> [opens |-> FALSE, len |-> 0, soi |-> FALSE, header |-> "unreadable"],
     before |-> NewDocument, err |-> FALSE, error |-> "", names |-> "", id |-> 0]

\* lines 271-304: the Pages root, the content stream, two fonts with their cmaps
InvStart ==
    /\ b_prog = "invoice" /\ b_pc = "start"
    /\ UNCHANGED <<mergeVars, imageVars, textVars>>
    /\ LET d1 == add_object(NewDocument,
                     Dict([Type |-> Name("Pages"), Kids |-> Arr(<<>>), Count |-> IntV(0)]))
           d2 == add_object(d1, Stream(EmptyDict, <<>>))
           d3 == add_object(d2, Stream(EmptyDict, "cmap"))
           d4 == add_object(d3, Dict([Type |-> Name("Font"), Name |-> Name("F1"),
                                      ToUnicode |-> Ref(d3.max_id)]))
           d5 == add_object(d4, Stream(EmptyDict, "cmap"))
           d6 == add_object(d5, Dict([Type |-> Name("Font"), Name |-> Name("F3Bold"),
                                      ToUnicode |-> Ref(d5.max_id)]))
       IN /\ b_doc' = d6
          /\ b_pages_id' = d1.max_id
    /\ b_pc' = "images"
    /\ UNCHANGED <<b_prog, a_items, a_item, current_operations, current_y, sig_px, sig_id,
                   a_added, inv_images, inv_call, inv_page_id, b_result, b_saved>>

\* one call of create_image_xobject from main (lines 306-318)
InvImage ==
    /\ b_prog = "invoice" /\ b_pc = "images"
    /\ UNCHANGED <<mergeVars, imageVars, textVars>>
    /\ Len(inv_images) < InvoiceImages
    /\ \E file \in JpegFiles :
         LET made == create_image_xobject(b_doc, file)
         IN /\ b_doc' = made.doc
            /\ inv_call' = [made |-> TRUE, file |-> file, before |-> b_doc, err |-> made.err,
                            error |-> made.error, names |-> made.names,
                            id |-> IF made.err THEN 0 ELSE made.doc.max_id]
            /\ IF made.err
               THEN b_pc' = "done" /\ b_result' = "Err" /\ inv_images' = inv_images
               ELSE b_pc' = b_pc /\ b_result' = b_result
                    /\ inv_images' = Append(inv_images, Ref(made.doc.max_id))
    /\ UNCHANGED <<b_prog, b_pages_id, a_items, a_item, current_operations, current_y,
                   sig_px, sig_id, a_added, inv_page_id, b_saved>>

\* the page dictionary (lines 320-352)
InvAddPage ==
    /\ b_prog = "invoice" /\ b_pc = "images"
    /\ UNCHANGED <<mergeVars, imageVars, textVars>>
    /\ Len(inv_images) = InvoiceImages
    /\ b_doc' = add_object(b_doc,
                    Dict([Type |-> Name("Page"),
                          Parent |-> Ref(b_pages_id),
                          MediaBox |-> Arr(<<IntV(0), IntV(0), IntV(595), IntV(842)>>),
                          Contents |-> Ref(b_pages_id + 1),
                          Resources |-> Dict([XObject |-> Dict([i \in DOMAIN inv_images |->
                                                                   inv_images[i]])])]))
    /\ inv_page_id' = b_doc.max_id + 1
    /\ b_pc' = "tree"
    /\ UNCHANGED <<b_prog, b_pages_id, a_items, a_item, current_operations, current_y,
                   sig_px, sig_id, a_added, inv_images, inv_call, b_result, b_saved>>

\* the Kids array with the page pushed (lines 365-371)
InvNewKids(pages_dict, page_id) ==
    Append(IF "Kids" \in DOMAIN pages_dict /\ pages_dict["Kids"].k = "arr"
           THEN pages_dict["Kids"].v ELSE <<>>,
           Ref(page_id))

\* "5. Update page tree" (lines 354-395): Kids gets the page, Count its length
InvUpdateTree ==
    /\ b_prog = "invoice" /\ b_pc = "tree"
    /\ UNCHANGED <<mergeVars, imageVars, textVars>>
    /\ IF b_pages_id \in DOMAIN b_doc.objects /\ b_doc.objects[b_pages_id].k = "dict"
       THEN LET new_kids == InvNewKids(b_doc.objects[b_pages_id].v, inv_page_id)
            IN /\ b_doc' = [b_doc EXCEPT !.objects[b_pages_id].v =
                               DSet(DSet(@, "Kids", Arr(new_kids)), "Count", IntV(Len(new_kids)))]
               /\ b_pc' = "finish"
               /\ b_result' = b_result
       ELSE b_pc' = "done" /\ b_result' = "Err" /\ b_doc' = b_doc
    /\ UNCHANGED <<b_prog, b_pages_id, a_items, a_item, current_operations, current_y,
                   sig_px, sig_id, a_added, inv_images, inv_call, inv_page_id, b_saved>>

\* the content stream is filled and the Catalog registered (lines 397-1049)
InvFinish ==
    /\ b_prog = "invoice" /\ b_pc = "finish"
    /\ UNCHANGED <<mergeVars, imageVars, textVars>>
    /\ LET filled == [b_doc EXCEPT !.objects[b_pages_id + 1] = Stream(EmptyDict, "content")]
           d1 == add_object(filled, Dict([Type |-> Name("Catalog"), Pages |-> Ref(b_pages_id)]))
       IN b_doc' = [d1 EXCEPT !.trailer = DSet(@, "Root", Ref(d1.max_id))]
    /\ b_pc' = "save"
    /\ UNCHANGED <<b_prog, b_pages_id, a_items, a_item, current_operations, current_y,
                   sig_px, sig_id, a_added, inv_images, inv_call, inv_page_id, b_result, b_saved>>

\* compress, save, Ok(()) (lines 1051-1054)
InvSave ==
    /\ b_prog = "invoice" /\ b_pc = "save"
    /\ UNCHANGED <<mergeVars, imageVars, textVars>>
    /\ b_saved' = TRUE
    /\ b_result' = "Ok"
    /\ b_pc' = "done"
    /\ UNCHANGED <<b_prog, b_doc, b_pages_id, a_items, a_item, current_operations, current_y,
                   sig_px, sig_id, a_added, inv_images, inv_call, inv_page_id>>

(***************************************************************************)
(* dsign and sign: add_png_image_to_pdf, src/dsign/src/main.rs lines       *)
(* 286-547 and src/sign/src/main.rs lines 180-286.  A call runs in three   *)
(* steps: the image objects, the page's Resources, the page's Contents.    *)
(* Every call of one run decodes the same image file.                      *)
(***************************************************************************)
\* the largest width and the largest height of a decoded raster
MaxDim == 2

\* the largest number of calls made on one document
MaxCalls == 2

\* the XObject names a call may be given
XObjectNames == {"Im1", "Im2"}

\* the RGBA pixel at column x, row y of the image file: every position has
\* its own colour and the alpha channel is not uniform
SourcePixel(x, y) ==
    <<10 * y + x + 1, 100 + 10 * y + x, 200 - 10 * y - x,
      IF (x + y) % 2 = 0 THEN 255 ELSE 16 * (y + 1) + x>>

\* image::load(..).to_rgba8() / image::open(..).to_rgba8(): the row-major
\* RGBA8 raster of a file of width w and height h
Raster(w, h) ==
    [w |-> w, h |-> h,
     data |-> [i \in 1..(w * h) |-> SourcePixel((i - 1) % w, (i - 1) \div w)]]

\* what opening and decoding the image file can give
ImageFiles ==
    {[ok |-> FALSE, w |-> 0, h |-> 0]}
    \cup {[ok |-> TRUE, w |-> w, h |-> h] : w \in 0..MaxDim, h \in 0..MaxDim}

\* mutant: the rows are left in source order
flip_vertical_in_place_Mut(img) == img

\* image::imageops::flip_vertical_in_place
flip_vertical_in_place(img) ==
    [img EXCEPT !.data =
        [i \in 1..(img.w * img.h) |->
            img.data[(img.h - 1 - ((i - 1) \div img.w)) * img.w + ((i - 1) % img.w) + 1]]]

\* mutant: the colour bytes of a pixel are stored as b, g, r
rgb_buf_Mut(img) ==
    [j \in 1..(3 * Len(img.data)) |-> img.data[((j - 1) \div 3) + 1][3 - ((j - 1) % 3)]]

\* rgb_buf after `for pixel in img.pixels()`: r, g, b of every pixel in turn
rgb_buf(img) ==
    [j \in 1..(3 * Len(img.data)) |-> img.data[((j - 1) \div 3) + 1][((j - 1) % 3) + 1]]

\* alpha_buf / alpha_channel_data after the same loop: a of every pixel in turn
alpha_buf(img) == [i \in 1..Len(img.data) |-> img.data[i][4]]

\* ZlibEncoder::write_all and finish: the Flate stream of the bytes
ZlibEncoder(bytes) == [flate |-> bytes]

\* the zero dimensions check of dsign (lines 306-316); sign has none
ZeroDimensions(prog, img) == prog = "dsign" /\ (img.w = 0 \/ img.h = 0)

\* mutant: the soft mask is registered as a second DeviceRGB image
SMaskDictionaryMut(w, h) ==
    [Type |-> Name("XObject"), Subtype |-> Name("Image"), Width |-> IntV(w),
     Height |-> IntV(h), ColorSpace |-> Name("DeviceRGB"), BitsPerComponent |-> IntV(8),
     Filter |-> Name("FlateDecode")]

\* the dictionary of the soft-mask image (dsign lines 359-366, sign 213-221)
SMaskDictionary(w, h) ==
    [Type |-> Name("XObject"), Subtype |-> Name("Image"), Width |-> IntV(w),
     Height |-> IntV(h), ColorSpace |-> Name("DeviceGray"), BitsPerComponent |-> IntV(8),
     Filter |-> Name("FlateDecode")]

\* the dictionary of the image XObject (dsign lines 342-350 and 369, sign
\* 226-235); smask is the soft mask's id, 0 for none
ImageDictionary(w, h, smask) ==
    LET d == [Type |-> Name("XObject"), Subtype |-> Name("Image"), Width |-> IntV(w),
              Height |-> IntV(h), ColorSpace |-> Name("DeviceRGB"),
              BitsPerComponent |-> IntV(8), Filter |-> Name("FlateDecode")]
    IN IF smask = 0 THEN d ELSE DSet(d, "SMask", Ref(smask))

\* whether a soft mask is built: always in sign; in dsign when transparency
\* is asked for and the alpha bytes are not empty (lines 352-354)
BuildsSMask(prog, with_transparency, alpha) ==
    prog = "sign" \/ (with_transparency /\ alpha # <<>>)

\* the scale the callers pass (dsign main line 122, sign line 178)
ScaleOf(prog) == IF prog = "dsign" THEN 1 ELSE 3

\* the position the callers pass (sign main lines 30-31)
Placement == [x |-> 100, y |-> 3010]

\* draw_ops: "q / w 0 0 h x y cm / name Do / Q"
DrawOps(prog, img, name) ==
    <<Op("q", <<>>),
      Op("cm", <<IntV(img.w * ScaleOf(prog)), IntV(0), IntV(0), IntV(img.h * ScaleOf(prog)),
                 IntV(Placement.x), IntV(Placement.y)>>),
      Op("Do", <<Name(name)>>),
      Op("Q", <<>>)>>

\* a call that has not registered anything yet
NoCall == [name |-> "", with_transparency |-> FALSE, smask_id |-> 0, xobject_id |-> 0]

\* the first step of a call: decode, flip, check, split, compress, and the
\* image objects (dsign lines 300-381, sign lines 189-237)
IImage ==
    /\ i_pc = "idle" /\ Len(i_calls) < MaxCalls /\ i_result # "Err"
    /\ UNCHANGED <<mergeVars, buildVars, textVars>>
    /\ \E name \in XObjectNames,
          with_transparency \in (IF i_prog = "dsign" THEN BOOLEAN ELSE {TRUE}) :
         LET img == flip_vertical_in_place(Raster(i_file.w, i_file.h))
             alpha == alpha_buf(img)
             masked == BuildsSMask(i_prog, with_transparency, alpha)
             d1 == IF masked
                   THEN add_object(i_doc, Stream(SMaskDictionary(img.w, img.h),
                                                 ZlibEncoder(alpha)))
                   ELSE i_doc
             smask_id == IF masked THEN d1.max_id ELSE 0
             d2 == add_object(d1, Stream(ImageDictionary(img.w, img.h, smask_id),
                                         ZlibEncoder(rgb_buf(img))))
             call == [name |-> name, with_transparency |-> with_transparency,
                      smask_id |-> 0, xobject_id |-> 0]
         IN /\ i_before' = i_doc
            /\ IF ~i_file.ok \/ ZeroDimensions(i_prog, img)
               THEN /\ i_call' = call
                    /\ i_result' = "Err"
                    /\ UNCHANGED <<i_doc, i_pc>>
               ELSE /\ i_call' = [call EXCEPT !.smask_id = smask_id, !.xobject_id = d2.max_id]
                    /\ i_doc' = d2
                    /\ i_pc' = "resources"
                    /\ i_result' = "none"
    /\ UNCHANGED <<i_prog, i_page_id, i_file, i_calls>>

\* the sub-dictionary key of d, made ready for an insertion: dsign (lines
\* 409-446) puts an empty dictionary where the entry is absent or is not a
\* dictionary; sign (lines 243-252) puts one where the entry is absent and
\* fails where it is not a dictionary
SubDictionary(prog, d, key) ==
    IF key \notin DOMAIN d
    THEN [err |-> FALSE, d |-> DSet(d, key, Dict(EmptyDict))]
    ELSE IF d[key].k = "dict"
    THEN [err |-> FALSE, d |-> d]
    ELSE IF prog = "dsign"
    THEN [err |-> FALSE, d |-> DSet(d, key, Dict(EmptyDict))]
    ELSE [err |-> TRUE, d |-> d]

\* the page dictionary with Resources/XObject/name set to the image (dsign
\* lines 409-456, sign lines 243-257)
UpdateResources(prog, page_dict, name, xobject_id) ==
    LET r == SubDictionary(prog, page_dict, "Resources")
        x == SubDictionary(prog, r.d["Resources"].v, "XObject")
    IN IF r.err THEN [err |-> TRUE, d |-> page_dict]
       ELSE IF x.err THEN [err |-> TRUE, d |-> r.d]
       ELSE [err |-> FALSE,
             d |-> DSet(r.d, "Resources",
                        Dict(DSet(x.d, "XObject",
                                  Dict(DSet(x.d["XObject"].v, name, Ref(xobject_id))))))]

\* doc.get_object_mut(page_id) and as_dict_mut both succeed
IsDictionaryObject(doc, id) == id \in DOMAIN doc.objects /\ doc.objects[id].k = "dict"

\* the second step: the page's Resources (dsign lines 383-456, sign 239-258)
IResources ==
    /\ i_pc = "resources"
    /\ UNCHANGED <<mergeVars, buildVars, textVars>>
    /\ IF IsDictionaryObject(i_doc, i_page_id)
       THEN LET upd == UpdateResources(i_prog, i_doc.objects[i_page_id].v,
                                       i_call.name, i_call.xobject_id)
            IN /\ i_doc' = [i_doc EXCEPT !.objects[i_page_id] = Dict(upd.d)]
               /\ i_pc' = IF upd.err THEN "idle" ELSE "contents"
               /\ i_result' = IF upd.err THEN "Err" ELSE "none"
       ELSE /\ i_pc' = "idle"
            /\ i_result' = "Err"
            /\ i_doc' = i_doc
    /\ UNCHANGED <<i_prog, i_page_id, i_file, i_call, i_before, i_calls>>

\* mutant: the new drawing stream takes the place of the page's Contents
NewContentsMut(prog, page_dict, stream_id) == Arr(<<Ref(stream_id)>>)

\* the page's Contents after the new drawing stream is added: dsign (lines
\* 499-539) always writes an array; sign (lines 270-281) writes a bare
\* reference where there was no reference and no array
NewContents(prog, page_dict, stream_id) ==
    LET old == IF "Contents" \in DOMAIN page_dict THEN page_dict["Contents"] ELSE IntV(0)
        has == "Contents" \in DOMAIN page_dict
    IN IF has /\ old.k = "arr" THEN Arr(Append(old.v, Ref(stream_id)))
       ELSE IF has /\ old.k = "ref" THEN Arr(<<old, Ref(stream_id)>>)
       ELSE IF prog = "dsign" THEN Arr(<<Ref(stream_id)>>)
       ELSE Ref(stream_id)

\* the third step: the drawing stream and the page's Contents (dsign lines
\* 458-546, sign lines 259-285)
IContents ==
    /\ i_pc = "contents"
    /\ UNCHANGED <<mergeVars, buildVars, textVars>>
    /\ LET img == Raster(i_file.w, i_file.h)
           d1 == add_object(i_doc, Stream(EmptyDict, DrawOps(i_prog, img, i_call.name)))
           stream_id == d1.max_id
       IN IF IsDictionaryObject(d1, i_page_id)
          THEN /\ i_doc' = [d1 EXCEPT !.objects[i_page_id].v =
                               DSet(@, "Contents", NewContents(i_prog, @, stream_id))]
               /\ i_result' = "Ok"
               /\ i_calls' = Append(i_calls, i_call.name)
          ELSE /\ i_doc' = d1
               /\ i_result' = "Err"
               /\ i_calls' = i_calls
    /\ i_pc' = "idle"
    /\ UNCHANGED <<i_prog, i_page_id, i_file, i_call, i_before>>

\* the documents a call may be made on.  target: the page id names a page
\* dictionary ("page"), nothing ("missing") or an integer object ("notdict");
\* res: the page's Resources entry is absent, a dictionary with fonts only
\* ("fonts"), one with fonts and XObjects ("full"), a Reference to such a
\* dictionary ("ref"), or a dictionary whose XObject is a Reference ("xref");
\* con: the page's Contents is absent, a Reference ("ref"), an array of two
\* References ("arr") or an integer ("other")
PageShapes ==
    [target : {"page"}, res : {"absent", "fonts", "full", "ref", "xref"},
     con : {"absent", "ref", "arr", "other"}]
    \cup {[target |-> t, res |-> "full", con |-> "ref"] : t \in {"missing", "notdict"}}

\* Document::load of a file of shape sh: two content streams (1, 2), an image
\* (3), a resources dictionary (4), an XObject dictionary (5), an integer (6)
\* and the page (7)
ImageDocument(sh) ==
    LET fonts == [Font |-> Dict([F1 |-> Dict([Type |-> Name("Font"),
                                              BaseFont |-> Name("Helvetica")])])]
        xobjects == [Im1 |-> Ref(3), ImOld |-> Ref(3)]
        full == DSet(fonts, "XObject", Dict(xobjects))
        base == [Type |-> Name("Page")]
        withRes == CASE sh.res = "absent" -> base
                     [] sh.res = "fonts" -> DSet(base, "Resources", Dict(fonts))
                     [] sh.res = "full" -> DSet(base, "Resources", Dict(full))
                     [] sh.res = "ref" -> DSet(base, "Resources", Ref(4))
                     [] sh.res = "xref" -> DSet(base, "Resources",
                                                Dict(DSet(fonts, "XObject", Ref(5))))
        page == CASE sh.con = "absent" -> withRes
                  [] sh.con = "ref" -> DSet(withRes, "Contents", Ref(1))
                  [] sh.con = "arr" -> DSet(withRes, "Contents", Arr(<<Ref(1), Ref(2)>>))
                  [] sh.con = "other" -> DSet(withRes, "Contents", IntV(0))
    IN [objects |-> <<Stream(EmptyDict, <<Op("BT", <<>>), Op("ET", <<>>)>>),
                      Stream(EmptyDict, <<Op("q", <<>>), Op("Q", <<>>)>>),
                      Stream(ImageDictionary(1, 1, 0), ZlibEncoder(<<0, 0, 0>>)),
                      Dict(full),
                      Dict(xobjects),
                      IntV(42),
                      Dict(page)>>,
        trailer |-> EmptyDict,
        max_id |-> 7,
        bookmarks |-> <<>>]

\* the page_id handed to the calls
PageIdOf(sh) == CASE sh.target = "page" -> 7 [] sh.target = "missing" -> 0 [] OTHER -> 6

ImageNext ==
    \/ IImage
    \/ IResources
    \/ IContents

(***************************************************************************)
(* Text strings: invoice writes them (src/invoice/src/main.rs), pd_air     *)
(* reads them back (src/pd_air/src/main.rs).  A &str is a sequence of      *)
(* Unicode scalar values, a Vec<u8> a sequence of 0..255.                  *)
(***************************************************************************)
MaxText == 2

\* NUL, 'I', 'N', DEL, e-acute, the scalars next to the surrogate gap, the
\* byte-order mark, the replacement character, and three beyond the BMP
Scalars == {0, 73, 78, 127, 233, 55295, 57344, 65279, 65533, 65536, 128512, 1114111}

Texts == UNION {[1..n -> Scalars] : n \in 0..MaxText}

\* mutant: the low byte first
to_be_bytes_Mut(u) == <<u % 256, u \div 256>>

\* u16::to_be_bytes
to_be_bytes(u) == <<u \div 256, u % 256>>

\* u16::from_be_bytes
from_be_bytes(b1, b2) == b1 * 256 + b2

\* str::encode_utf16: one unit below U+10000, a surrogate pair from there on
Utf16Units(c) ==
    IF c < 65536 THEN <<c>>
    ELSE <<55296 + ((c - 65536) \div 1024), 56320 + ((c - 65536) % 1024)>>

RECURSIVE encode_utf16(_)
encode_utf16(text) ==
    IF text = <<>> THEN <<>> ELSE Utf16Units(Head(text)) \o encode_utf16(Tail(text))

RECURSIVE UnitBytes(_)
UnitBytes(units) ==
    IF units = <<>> THEN <<>> ELSE to_be_bytes(Head(units)) \o UnitBytes(Tail(units))

\* fn encode_unicode_text (lines 157-164): the bytes of the Object::String
encode_unicode_text(text) == <<254, 255>> \o UnitBytes(encode_utf16(text))

\* the UTF-8 bytes of one scalar value (str::as_bytes)
Utf8Bytes(c) ==
    IF c < 128 THEN <<c>>
    ELSE IF c < 2048 THEN <<192 + (c \div 64), 128 + (c % 64)>>
    ELSE IF c < 65536 THEN <<224 + (c \div 4096), 128 + ((c \div 64) % 64), 128 + (c % 64)>>
    ELSE <<240 + (c \div 262144), 128 + ((c \div 4096) % 64),
           128 + ((c \div 64) % 64), 128 + (c % 64)>>

\* Object::string_literal(&str): the string's own bytes
RECURSIVE string_literal(_)
string_literal(text) ==
    IF text = <<>> THEN <<>> ELSE Utf8Bytes(Head(text)) \o string_literal(Tail(text))

\* bytes.chunks_exact(2).map(from_be_bytes): a trailing odd byte is dropped
RECURSIVE Words(_)
Words(bytes) ==
    IF Len(bytes) < 2 THEN <<>>
    ELSE <<from_be_bytes(bytes[1], bytes[2])>> \o Words(SubSeq(bytes, 3, Len(bytes)))

IsHighSurrogate(u) == u >= 55296 /\ u <= 56319
IsLowSurrogate(u) == u >= 56320 /\ u <= 57343

\* String::from_utf16: Err on an unpaired surrogate
RECURSIVE from_utf16(_)
from_utf16(units) ==
    IF units = <<>> THEN [ok |-> TRUE, s |-> <<>>]
    ELSE LET u == Head(units) IN
         IF IsHighSurrogate(u)
         THEN IF Len(units) >= 2 /\ IsLowSurrogate(units[2])
              THEN LET rest == from_utf16(SubSeq(units, 3, Len(units)))
                       c == 65536 + (u - 55296) * 1024 + (units[2] - 56320)
                   IN  [ok |-> rest.ok, s |-> IF rest.ok THEN <<c>> \o rest.s ELSE <<>>]
              ELSE [ok |-> FALSE, s |-> <<>>]
         ELSE IF IsLowSurrogate(u) THEN [ok |-> FALSE, s |-> <<>>]
         ELSE LET rest == from_utf16(Tail(units))
              IN  [ok |-> rest.ok, s |-> IF rest.ok THEN <<u>> \o rest.s ELSE <<>>]

\* UTF-8 as core::str validates it: the width announced by the first byte,
\* and the range allowed to the second byte after E0, ED, F0 and F4
Utf8Width(b) ==
    IF b < 128 THEN 1
    ELSE IF b >= 194 /\ b <= 223 THEN 2
    ELSE IF b >= 224 /\ b <= 239 THEN 3
    ELSE IF b >= 240 /\ b <= 244 THEN 4
    ELSE 0

Utf8Cont(b) == b >= 128 /\ b <= 191

Utf8Second(b0, b1) ==
    CASE b0 = 224 -> b1 >= 160 /\ b1 <= 191
      [] b0 = 237 -> b1 >= 128 /\ b1 <= 159
      [] b0 = 240 -> b1 >= 144 /\ b1 <= 191
      [] b0 = 244 -> b1 >= 128 /\ b1 <= 143
      [] OTHER -> Utf8Cont(b1)

\* how many bytes at the head of bytes begin a well-formed sequence
Utf8Good(bytes) ==
    LET w == Utf8Width(bytes[1]) IN
    IF w = 0 THEN 0
    ELSE IF w = 1 THEN 1
    ELSE IF ~(Len(bytes) >= 2 /\ Utf8Second(bytes[1], bytes[2])) THEN 1
    ELSE IF w = 2 THEN 2
    ELSE IF ~(Len(bytes) >= 3 /\ Utf8Cont(bytes[3])) THEN 2
    ELSE IF w = 3 THEN 3
    ELSE IF ~(Len(bytes) >= 4 /\ Utf8Cont(bytes[4])) THEN 3
    ELSE 4

\* the scalar value of the well-formed sequence of w bytes at the head
Utf8Scalar(bytes, w) ==
    CASE w = 1 -> bytes[1]
      [] w = 2 -> (bytes[1] - 192) * 64 + (bytes[2] - 128)
      [] w = 3 -> (bytes[1] - 224) * 4096 + (bytes[2] - 128) * 64 + (bytes[3] - 128)
      [] OTHER -> (bytes[1] - 240) * 262144 + (bytes[2] - 128) * 4096
                      + (bytes[3] - 128) * 64 + (bytes[4] - 128)

\* String::from_utf8: Err on the first ill-formed sequence
RECURSIVE from_utf8(_)
from_utf8(bytes) ==
    IF bytes = <<>> THEN [ok |-> TRUE, s |-> <<>>]
    ELSE LET w == Utf8Width(bytes[1]) IN
         IF w = 0 \/ Utf8Good(bytes) # w THEN [ok |-> FALSE, s |-> <<>>]
         ELSE LET rest == from_utf8(SubSeq(bytes, w + 1, Len(bytes)))
              IN  [ok |-> rest.ok,
                   s |-> IF rest.ok THEN <<Utf8Scalar(bytes, w)>> \o rest.s ELSE <<>>]

\* String::from_utf8_lossy: U+FFFD for each maximal ill-formed part
RECURSIVE from_utf8_lossy(_)
from_utf8_lossy(bytes) ==
    IF bytes = <<>> THEN <<>>
    ELSE LET w == Utf8Width(bytes[1])
             g == Utf8Good(bytes)
         IN  IF w > 0 /\ g = w
             THEN <<Utf8Scalar(bytes, w)>> \o from_utf8_lossy(SubSeq(bytes, w + 1, Len(bytes)))
             ELSE <<65533>>
                  \o from_utf8_lossy(SubSeq(bytes, (IF g = 0 THEN 1 ELSE g) + 1, Len(bytes)))

\* char::is_control: the general category Cc
is_control(c) == c <= 31 \/ (c >= 127 /\ c <= 159)

\* fn decode_text_bytes (pd_air, lines 117-143)
decode_text_bytes(bytes) ==
    LET bom == Len(bytes) >= 2 /\ bytes[1] = 254 /\ bytes[2] = 255
        marked == from_utf16(Words(SubSeq(bytes, 3, Len(bytes))))
        utf8 == from_utf8(bytes)
        bare == from_utf16(Words(bytes))
    IN  IF bom /\ marked.ok THEN marked.s
        ELSE IF utf8.ok THEN utf8.s
        ELSE IF /\ Len(bytes) % 2 = 0 /\ Len(bytes) > 0
                /\ bare.ok
                /\ \E i \in 1..Len(bare.s) : ~is_control(bare.s[i]) /\ bare.s[i] # 65533
             THEN bare.s
        ELSE from_utf8_lossy(bytes)

\* invoice writes the string with encode_unicode_text
TextWriteUnicode ==
    /\ t_pc = "text"
    /\ t_bytes' = encode_unicode_text(t_text)
    /\ t_how' = "unicode"
    /\ t_pc' = "written"
    /\ UNCHANGED <<t_text, t_out>>
    /\ UNCHANGED <<mergeVars, buildVars, imageVars>>

\* invoice writes the string with Object::string_literal (lines 428-786)
TextWriteLiteral ==
    /\ t_pc = "text"
    /\ t_bytes' = string_literal(t_text)
    /\ t_how' = "literal"
    /\ t_pc' = "written"
    /\ UNCHANGED <<t_text, t_out>>
    /\ UNCHANGED <<mergeVars, buildVars, imageVars>>

\* pd_air decodes the operand of a Tj (lines 169, 180, 190)
TextRead ==
    /\ t_pc = "written"
    /\ t_out' = decode_text_bytes(t_bytes)
    /\ t_pc' = "read"
    /\ UNCHANGED <<t_text, t_how, t_bytes>>
    /\ UNCHANGED <<mergeVars, buildVars, imageVars>>

TextNext ==
    \/ TextWriteUnicode
    \/ TextWriteLiteral
    \/ TextRead


(***************************************************************************)
(* Specifications: one per family of programs; the other families rest.    *)
(***************************************************************************)
vars == <<mergeVars, buildVars, imageVars, textVars>>

\* no string in hand
TextRest ==
    /\ t_pc = "idle"
    /\ t_text = <<>>
    /\ t_how = "none"
    /\ t_bytes = <<>>
    /\ t_out = <<>>

\* dsign and sign before any call
ImageRest ==
    /\ i_prog = "dsign"
    /\ i_pc = "idle"
    /\ i_doc = NewDocument
    /\ i_page_id = 0
    /\ i_file = [ok |-> FALSE, w |-> 0, h |-> 0]
    /\ i_call = NoCall
    /\ i_before = NewDocument
    /\ i_calls = <<>>
    /\ i_result = "none"

\* the builders before they start; a starts with the document main built
\* (lines 163-167), invoice with an empty one
BuildRest(prog) ==
    /\ b_prog = prog
    /\ b_pc = "start"
    /\ b_doc = IF prog = "a" THEN ADocument ELSE NewDocument
    /\ b_pages_id = IF prog = "a" THEN 1 ELSE 0
    /\ a_items = <<>>
    /\ a_item = [text |-> "", size |-> 0, space_after |-> 0]
    /\ current_operations = <<>>
    /\ current_y = 0
    /\ sig_px = [w |-> 0, h |-> 0]
    /\ sig_id = 0
    /\ a_added = 0
    /\ inv_images = <<>>
    /\ inv_call = NoImageCall
    /\ inv_page_id = 0
    /\ b_result = "none"
    /\ b_saved = FALSE

\* merge before it starts (lines 26-32)
MergeRest ==
    /\ pc = "load"
    /\ loaded = <<>>
    /\ max_id = 1
    /\ pagenum = 1
    /\ documents_pages = EmptyMap
    /\ documents_objects = EmptyMap
    /\ document = NewDocument
    /\ catalog_object = None
    /\ pages_object = None
    /\ outline = 0
    /\ saved = FALSE
    /\ result = "none"

MergeInit == MergeRest /\ BuildRest("a") /\ ImageRest /\ TextRest

BuildInit == \E prog \in {"a", "invoice"} : MergeRest /\ BuildRest(prog) /\ ImageRest /\ TextRest

\* a loaded document, a page id and an image file, for dsign or sign
ImageInit ==
    /\ MergeRest /\ BuildRest("a") /\ TextRest
    /\ i_prog \in {"dsign", "sign"}
    /\ i_file \in ImageFiles
    /\ \E sh \in PageShapes :
          /\ i_doc = ImageDocument(sh)
          /\ i_before = ImageDocument(sh)
          /\ i_page_id = PageIdOf(sh)
    /\ i_pc = "idle"
    /\ i_call = NoCall
    /\ i_calls = <<>>
    /\ i_result = "none"

BuildNext ==
    \/ AStart
    \/ AItemBreak
    \/ AItemEmit
    \/ AItemSpace
    \/ AFinalPage
    \/ ASetCount
    \/ ASave
    \/ InvStart
    \/ InvImage
    \/ InvAddPage
    \/ InvUpdateTree
    \/ InvFinish
    \/ InvSave

SpecMerge == MergeInit /\ [][MergeNext]_vars

SpecBuild == BuildInit /\ [][BuildNext]_vars

SpecImage == ImageInit /\ [][ImageNext]_vars

\* a string in hand
TextInit ==
    /\ MergeRest /\ BuildRest("a") /\ ImageRest
    /\ t_pc = "text"
    /\ t_text \in Texts
    /\ t_how = "none"
    /\ t_bytes = <<>>
    /\ t_out = <<>>

SpecText == TextInit /\ [][TextNext]_vars

(***************************************************************************)
(* Properties of merge.                                                    *)
(***************************************************************************)
\* the merge ran to its end and wrote merged.pdf
MergeCompleted == pc = "done" /\ saved

IsDictOfType(objs, id, t) == id \in DOMAIN objs /\ objs[id].k = "dict" /\ type_name(objs[id]) = t

\* the id a reference entry of a dictionary object names, 0 if there is none
EntryRef(objs, id, key) ==
    IF id \in DOMAIN objs /\ objs[id].k = "dict" /\ key \in DOMAIN objs[id].v
       /\ objs[id].v[key].k = "ref"
    THEN objs[id].v[key].v ELSE 0

ContentOf(objs, id) ==
    IF id \in DOMAIN objs /\ objs[id].k = "dict" /\ "Content" \in DOMAIN objs[id].v
    THEN objs[id].v["Content"].v ELSE 0

\* the object the trailer's Root names, and the one its Pages entry names
RootId == IF "Root" \in DOMAIN document.trailer /\ document.trailer["Root"].k = "ref"
          THEN document.trailer["Root"].v ELSE 0
RootPagesId == EntryRef(document.objects, RootId, "Pages")

\* the ids the Kids array of the unified Pages dictionary references, in order
FinalKids ==
    LET kids == KidsOf(document.objects, RootPagesId)
    IN [i \in DOMAIN kids |-> IF kids[i].k = "ref" THEN kids[i].v ELSE 0]

FinalKidsContent == [i \in DOMAIN FinalKids |-> ContentOf(document.objects, FinalKids[i])]

PageCounts == [k \in DOMAIN loaded |-> Len(loaded[k].pages)]

\* the Content of page i of input k
InputPageContent(k, i) == ContentOf(loaded[k].doc.objects, loaded[k].pages[i])

\* the pages of inputs 1..k, concatenated in input order and page order
RECURSIVE PagesUpTo(_)
PagesUpTo(k) ==
    IF k = 0 THEN <<>>
    ELSE PagesUpTo(k - 1) \o [i \in 1..PageCounts[k] |-> InputPageContent(k, i)]

\* C1: a completed merge has a unified Pages dictionary whose Count is the sum
\* of the inputs' page counts and whose Kids holds that many entries, every
\* input page once
C1_MergeAdditive ==
    MergeCompleted =>
        /\ IsDictOfType(document.objects, RootPagesId, "Pages")
        /\ "Count" \in DOMAIN document.objects[RootPagesId].v
        /\ document.objects[RootPagesId].v["Count"] = IntV(SumSeq(PageCounts))
        /\ Len(FinalKids) = SumSeq(PageCounts)
        /\ \A k \in DOMAIN loaded : \A i \in 1..PageCounts[k] :
               Cardinality({j \in DOMAIN FinalKids :
                               FinalKidsContent[j] = InputPageContent(k, i)}) = 1

C1_Witness ==
    /\ MergeCompleted
    /\ \A k \in DOMAIN loaded : PageCounts[k] >= 1
    /\ SumSeq(PageCounts) >= 3

C3_DisjointIds ==
    /\ \A j, k \in DOMAIN loaded :
           j # k => DOMAIN loaded[j].doc.objects \cap DOMAIN loaded[k].doc.objects = {}
    /\ \A k \in DOMAIN loaded : \A id \in DOMAIN loaded[k].doc.objects :
           id \in DOMAIN documents_objects /\ documents_objects[id] = loaded[k].doc.objects[id]
    /\ Cardinality(DOMAIN documents_objects)
           = SumSeq([k \in DOMAIN loaded |-> Cardinality(DOMAIN loaded[k].doc.objects)])

C3_Witness ==
    /\ Len(loaded) = NumDocs
    /\ \A k \in DOMAIN loaded : Cardinality(DOMAIN loaded[k].doc.objects) >= 3

\* C6: once the pages are re-parented and the store renumbered, every Page
\* object of the unified store has the unified Pages id as Parent and is
\* listed in that dictionary's Kids
C6_PagesReparented ==
    (pc \in {"outline", "save"} \/ MergeCompleted) =>
        \A id \in DOMAIN document.objects :
            IsDictOfType(document.objects, id, "Page") =>
                /\ IsDictOfType(document.objects, RootPagesId, "Pages")
                /\ EntryRef(document.objects, id, "Parent") = RootPagesId
                /\ id \in Range(FinalKids)

C6_Witness ==
    /\ MergeCompleted
    /\ loaded[1].shape.nested
    /\ PageCounts[2] >= 2

\* C7: once the store is renumbered the trailer's Root names a Catalog whose
\* Pages entry names the unified Pages dictionary; the Catalog has no Outlines
\* entry before the outline is rebuilt, and afterwards none but the rebuilt one
C7_RootCatalogPages ==
    (pc \in {"outline", "save"} \/ MergeCompleted) =>
        /\ IsDictOfType(document.objects, RootId, "Catalog")
        /\ IsDictOfType(document.objects, RootPagesId, "Pages")
        /\ Len(FinalKids) = SumSeq(PageCounts)
        /\ pc = "outline" => "Outlines" \notin DOMAIN document.objects[RootId].v
        /\ "Outlines" \in DOMAIN document.objects[RootId].v =>
               outline # 0 /\ document.objects[RootId].v["Outlines"] = Ref(outline)

C7_Witness ==
    /\ MergeCompleted
    /\ \E k \in DOMAIN loaded : loaded[k].shape.cat = "high"
    /\ loaded[Len(loaded)].shape.cat = "high"

\* C8: when a bookmark was recorded, the completed merge has the Outlines
\* entry, naming the root of the rebuilt outline, on the Catalog the trailer's
\* Root names and on no other object
C8_OutlinesOnCatalog ==
    (MergeCompleted /\ document.bookmarks # <<>>) =>
        /\ EntryRef(document.objects, RootId, "Outlines") = outline
        /\ outline # 0
        /\ \A id \in DOMAIN document.objects :
               (document.objects[id].k = "dict" /\ "Outlines" \in DOMAIN document.objects[id].v)
                   => id = RootId

\* C9: with no Pages object or no Catalog among the inputs the merge ends in
\* an error result and saves nothing
C9_MissingRootsFail ==
    (pc = "done" /\ (~pages_object.some \/ ~catalog_object.some)) =>
        result = "Err" /\ ~saved

\* the inputs that hold a Catalog, in input order
CatalogInputs == {k \in DOMAIN loaded : loaded[k].shape.cat # "none"}

\* C10: with several Catalogs among the inputs the unified Catalog has the
\* content of the first Catalog seen
C10_FirstCatalogKept ==
    (MergeCompleted /\ Cardinality(CatalogInputs) >= 2) =>
        ContentOf(document.objects, RootId) = 100 * Min(CatalogInputs)

\* the Pages dictionaries of the inputs in the order the collect loop meets them
PagesSeen ==
    LET ids == AscSeq({id \in DOMAIN documents_objects :
                          /\ documents_objects[id].k = "dict"
                          /\ type_name(documents_objects[id]) = "Pages"})
    IN [i \in DOMAIN ids |-> documents_objects[ids[i]].v]

\* the keys, other than Kids and Count, of the Pages dictionaries met
PagesKeys == UNION {DOMAIN PagesSeen[i] : i \in DOMAIN PagesSeen} \ {"Kids", "Count"}

\* the value a key has in the last Pages dictionary that holds it
LaterValue(key) ==
    LET i == CHOOSE i \in DOMAIN PagesSeen :
                 /\ key \in DOMAIN PagesSeen[i]
                 /\ \A j \in DOMAIN PagesSeen : key \in DOMAIN PagesSeen[j] => j <= i
    IN PagesSeen[i][key]

\* C11: once the Pages dictionaries are merged, every key other than Kids and
\* Count that any of them holds is in the unified Pages dictionary, with the
\* value of the Pages dictionary seen last among those that hold it
C11_LaterPagesOverride ==
    (pc \notin {"load", "collect"} /\ pages_object.some) =>
        \A key \in PagesKeys :
            /\ key \in DOMAIN pages_object.obj.v
            /\ pages_object.obj.v[key] = LaterValue(key)

\* every id referenced from the trailer or from an object of the store
AllReferences(doc) ==
    RefsOf(Dict(doc.trailer)) \cup UNION {RefsOf(doc.objects[id]) : id \in DOMAIN doc.objects}

\* C12: after a merge every Reference held by the trailer or by an object of
\* the unified store names an object of the unified store
C12_NoDanglingReferences ==
    MergeCompleted => AllReferences(document) \subseteq DOMAIN document.objects

(***************************************************************************)
(* Properties of the builders a and invoice.                               *)
(***************************************************************************)
\* the Pages root of the builder's document
BPagesDict == b_doc.objects[b_pages_id].v
BKids == KidsOf(b_doc.objects, b_pages_id)
BCount == BPagesDict["Count"].v

\* a's build is under way or over
ABuilding == b_prog = "a" /\ b_pc # "start"

\* C4 as claimed: in a, in every state of the build, Count is the number of
\* pages added so far
C4_CountTracksAdditions == ABuilding => BCount = a_added

\* C4 as amended: in a, Kids has one entry per page added so far in every
\* state of the build, and Count is 0 until the build sets it at its end,
\* from when on (the build returned Ok) Count is the number of pages added
C4_CountSetAtEnd ==
    ABuilding =>
        /\ Len(BKids) = a_added
        /\ b_result = "Ok" => BCount = a_added
        /\ b_result # "Ok" => BCount = 0

C4_Witness == ABuilding /\ b_result = "Ok" /\ a_added >= 2 /\ BCount = a_added

\* the builder stands at its save step or has saved
AtSave == b_pc = "save" \/ b_saved \/ (b_prog = "invoice" /\ b_pc = "finish")

\* C5: when a builder reaches its save step the Pages root's Count is the
\* length of Kids, every Kids entry names a Page dictionary, and each such
\* Page has the Pages root as Parent
C5_PageTreeConsistent ==
    AtSave =>
        /\ BCount = Len(BKids)
        /\ \A i \in DOMAIN BKids :
               /\ BKids[i].k = "ref"
               /\ IsDictOfType(b_doc.objects, BKids[i].v, "Page")
               /\ EntryRef(b_doc.objects, BKids[i].v, "Parent") = b_pages_id

C5_Witness == b_prog = "invoice" /\ b_saved /\ Len(BKids) = 1 /\ BCount = 1

\* the texts shown (Tj) by a list of content operations, in order
RECURSIVE TextsOf(_)
TextsOf(ops) ==
    IF ops = <<>> THEN <<>>
    ELSE (IF Head(ops).name = "Tj" THEN <<Head(ops).operands[1].v>> ELSE <<>>)
         \o TextsOf(Tail(ops))

\* the texts on the i-th page of the builder's document, in Kids order
PageTexts(i) ==
    LET page == b_doc.objects[BKids[i].v].v
    IN TextsOf(b_doc.objects[page["Contents"].v].data)

\* the texts of all pages, page after page
RECURSIVE TextsUpTo(_)
TextsUpTo(n) == IF n = 0 THEN <<>> ELSE TextsUpTo(n - 1) \o PageTexts(n)

\* the texts of the first n input items
ItemTexts(n) == [j \in 1..n |-> a_items[j].text]

\* the height of the page body: the page height minus both margins
BodyHeight == PAGE_HEIGHT_PT - 2 * PAGE_MARGIN

\* a's build has returned Ok: every item has been handled and flushed
ABuilt == b_prog = "a" /\ b_result = "Ok"

\* the cumulative height at item k as the claim words it: the height
\* estimates of items 1..k and the space_after of items 1..k-1
EstimateCumulative(k) ==
    SumSeq([j \in 1..k |-> item_height_estimate(a_items[j])])
    + SumSeq([j \in 1..(k - 1) |-> a_items[j].space_after])

\* the cumulative height at item k as the cursor keeps it: the size and
\* space_after of items 1..k-1 and the height estimate of item k
CursorCumulative(k) ==
    SumSeq([j \in 1..(k - 1) |-> a_items[j].size + a_items[j].space_after])
    + item_height_estimate(a_items[k])

\* items 1..k-1 are the items of page 1 and item k is the first of page 2
BreaksAt(k) ==
    /\ Len(BKids) >= 2
    /\ PageTexts(1) = ItemTexts(k - 1)
    /\ PageTexts(2) # <<>>
    /\ Head(PageTexts(2)) = a_items[k].text

\* C13 as claimed: if the height estimates of the items and the space_after
\* of the items before the current one first exceed the body height at item
\* k, items 1..k-1 are on page 1 and item k is the first item of page 2
C13_BreakAtEstimateSum ==
    ABuilt =>
        \A k \in DOMAIN a_items :
            (EstimateCumulative(k) > BodyHeight
             /\ \A j \in 1..(k - 1) : EstimateCumulative(j) <= BodyHeight)
            => BreaksAt(k)

\* C13 as the code has it: if the sizes and space_after of the items before
\* item k plus the height estimate of item k first exceed the body height at
\* an item k that is not the first, items 1..k-1 are on page 1 and item k is
\* the first item of page 2; a first item taller than the body stays on page 1
C13_BreakAtCursorSum ==
    ABuilt =>
        \A k \in DOMAIN a_items :
            (CursorCumulative(k) > BodyHeight
             /\ \A j \in 1..(k - 1) : CursorCumulative(j) <= BodyHeight)
            => IF k >= 2 THEN BreaksAt(k)
               ELSE PageTexts(1) # <<>> /\ Head(PageTexts(1)) = a_items[1].text

C13_Witness ==
    /\ ABuilt /\ Len(a_items) = 3
    /\ CursorCumulative(3) > BodyHeight
    /\ \A j \in 1..2 : CursorCumulative(j) <= BodyHeight
    /\ BreaksAt(3)

\* C14: when a's build has returned Ok, the texts of the pages, taken in Kids
\* order, are the texts of the input items in input order, each once, items
\* taller than the page body included
C14_NoItemDropped ==
    ABuilt => TextsUpTo(Len(BKids)) = ItemTexts(Len(a_items))

C14_Witness ==
    /\ ABuilt /\ Len(BKids) >= 2
    /\ \E j \in DOMAIN a_items : item_height_estimate(a_items[j]) > BodyHeight
    /\ TextsUpTo(Len(BKids)) = ItemTexts(Len(a_items))

(***************************************************************************)
(* Properties of add_png_image_to_pdf (dsign and sign).                    *)
(***************************************************************************)
\* the call under way has registered its image objects
ImageRegistered == i_call.xobject_id # 0

\* the last call has returned Ok
CallReturnedOk == i_pc = "idle" /\ i_result = "Ok"

\* the last call got as far as the page's Resources and has returned
CallReturned == i_pc = "idle" /\ i_result \in {"Ok", "Err"} /\ ImageRegistered

\* the page dictionary before and after the call
PageBefore == i_before.objects[i_page_id].v
PageAfter == i_doc.objects[i_page_id].v

\* the entry key of dictionary d when it is a dictionary, otherwise an empty one
SubDictOf(d, key) ==
    IF key \in DOMAIN d /\ d[key].k = "dict" THEN d[key].v ELSE EmptyDict

\* the entry key of dictionary d is present and is not a dictionary
NotADictionary(d, key) == key \in DOMAIN d /\ d[key].k # "dict"

\* the ids registered since the call began
AddedIds == DOMAIN i_doc.objects \ DOMAIN i_before.objects

\* C15: after a call that returned Ok, the page's Resources/XObject maps the
\* given name to the image registered by the call; Resources and XObject
\* were created only where absent; every other Resources entry and every
\* XObject under another name is as before (the same name is overwritten)
C15_ResourcesFrame ==
    CallReturnedOk =>
        LET oldRes == SubDictOf(PageBefore, "Resources")
            oldX == SubDictOf(oldRes, "XObject")
            res == SubDictOf(PageAfter, "Resources")
            xobjects == SubDictOf(res, "XObject")
        IN /\ i_call.name \in DOMAIN xobjects
           /\ xobjects[i_call.name] = Ref(i_call.xobject_id)
           /\ i_call.xobject_id \in AddedIds
           /\ ~NotADictionary(PageBefore, "Resources")
           /\ ~NotADictionary(oldRes, "XObject")
           /\ DOMAIN res = DOMAIN oldRes \cup {"XObject"}
           /\ \A key \in DOMAIN oldRes \ {"XObject"} : res[key] = oldRes[key]
           /\ DOMAIN xobjects = DOMAIN oldX \cup {i_call.name}
           /\ \A n \in DOMAIN oldX \ {i_call.name} : xobjects[n] = oldX[n]

\* C16: when the page's Resources entry, or the XObject entry inside it, is
\* present and is not a dictionary, the call returns an error and the entry
\* is as it was
C16_TypeMismatchReported ==
    (CallReturned /\ IsDictionaryObject(i_before, i_page_id)) =>
        /\ NotADictionary(PageBefore, "Resources") =>
               i_result = "Err" /\ PageAfter["Resources"] = PageBefore["Resources"]
        /\ NotADictionary(SubDictOf(PageBefore, "Resources"), "XObject") =>
               /\ i_result = "Err"
               /\ PageAfter["Resources"] = PageBefore["Resources"]

\* object id is an image stream of the colour space cs and of the raster's size
IsImageObject(id, cs) ==
    /\ id \in DOMAIN i_doc.objects
    /\ i_doc.objects[id].k = "stream"
    /\ LET d == i_doc.objects[id].v
       IN /\ d["Subtype"] = Name("Image")
          /\ d["ColorSpace"] = Name(cs)
          /\ d["Width"] = IntV(i_file.w)
          /\ d["Height"] = IntV(i_file.h)

\* the image step of a call has just registered its objects
ImageStepDone == i_pc = "resources"

\* C17: when the image step has run for a non-empty image, with transparency
\* it has registered exactly two objects, a DeviceGray soft mask and after it
\* a DeviceRGB image whose SMask references the soft mask, both of the
\* raster's width and height; without transparency (dsign) exactly one
\* DeviceRGB image with no SMask entry
C17_SMaskPair ==
    (ImageStepDone /\ i_file.w > 0 /\ i_file.h > 0) =>
        IF i_call.with_transparency
        THEN /\ AddedIds = {i_call.smask_id, i_call.xobject_id}
             /\ i_call.smask_id # 0
             /\ i_call.smask_id < i_call.xobject_id
             /\ IsImageObject(i_call.smask_id, "DeviceGray")
             /\ IsImageObject(i_call.xobject_id, "DeviceRGB")
             /\ "SMask" \in DOMAIN i_doc.objects[i_call.xobject_id].v
             /\ i_doc.objects[i_call.xobject_id].v["SMask"] = Ref(i_call.smask_id)
        ELSE /\ AddedIds = {i_call.xobject_id}
             /\ IsImageObject(i_call.xobject_id, "DeviceRGB")
             /\ "SMask" \notin DOMAIN i_doc.objects[i_call.xobject_id].v

C17_Witness ==
    /\ ImageStepDone /\ i_prog = "dsign" /\ i_call.with_transparency
    /\ i_file.w = 2 /\ i_file.h = 2
    /\ Cardinality(AddedIds) = 2
    /\ IsImageObject(i_call.smask_id, "DeviceGray")

\* the bytes a Flate stream holds
ZlibDecode(data) == data.flate

\* the colour bytes and the alpha byte stored for row r, column c
StoredRGB(r, c) ==
    LET bytes == ZlibDecode(i_doc.objects[i_call.xobject_id].data)
        i == r * i_file.w + c
    IN <<bytes[3 * i + 1], bytes[3 * i + 2], bytes[3 * i + 3]>>
StoredAlpha(r, c) ==
    ZlibDecode(i_doc.objects[i_call.smask_id].data)[r * i_file.w + c + 1]

\* C18: the rows stored in the image data are the vertical mirror of the
\* source rows: stored row r is source row h-1-r, the pixels of a row in
\* their source order
C18_RowsMirrored ==
    ImageStepDone =>
        \A r \in 0..(i_file.h - 1), c \in 0..(i_file.w - 1) :
            LET src == SourcePixel(c, i_file.h - 1 - r)
            IN /\ StoredRGB(r, c) = <<src[1], src[2], src[3]>>
               /\ i_call.smask_id # 0 => StoredAlpha(r, c) = src[4]

C18_Witness ==
    /\ ImageStepDone /\ i_file.w = 2 /\ i_file.h = 2
    /\ StoredRGB(0, 0) # StoredRGB(1, 0)
    /\ StoredRGB(0, 0) # StoredRGB(0, 1)
    /\ StoredRGB(0, 1) = <<SourcePixel(1, 1)[1], SourcePixel(1, 1)[2], SourcePixel(1, 1)[3]>>

\* the flipped raster the channels are split from
FlippedPixels == flip_vertical_in_place(Raster(i_file.w, i_file.h)).data

\* the colour buffer holds 3*w*h bytes, r, g, b of each pixel in turn
ColourExact ==
    LET bytes == ZlibDecode(i_doc.objects[i_call.xobject_id].data)
    IN /\ Len(bytes) = 3 * i_file.w * i_file.h
       /\ \A i \in 0..(i_file.w * i_file.h - 1) :
              <<bytes[3 * i + 1], bytes[3 * i + 2], bytes[3 * i + 3]>>
                  = SubSeq(FlippedPixels[i + 1], 1, 3)

\* the alpha buffer holds w*h bytes, a of each pixel in turn, so that the
\* two buffers together give back every pixel
AlphaExact ==
    /\ i_call.smask_id # 0
    /\ LET bytes == ZlibDecode(i_doc.objects[i_call.xobject_id].data)
           alpha == ZlibDecode(i_doc.objects[i_call.smask_id].data)
       IN /\ Len(alpha) = i_file.w * i_file.h
          /\ \A i \in 0..(i_file.w * i_file.h - 1) :
                 <<bytes[3 * i + 1], bytes[3 * i + 2], bytes[3 * i + 3], alpha[i + 1]>>
                     = FlippedPixels[i + 1]

\* C19 as claimed: after the image step the colour buffer and the alpha
\* buffer are exact and recombine to every pixel of the flipped raster
C19_SplitExactAlways == ImageStepDone => ColourExact /\ AlphaExact

\* C19 as the code has it: the colour buffer is always exact; the alpha
\* buffer is built, and is exact, where a soft mask is built (always in
\* sign, in dsign when transparency is asked for); without it the alpha
\* channel is dropped
C19_SplitExactWithMask ==
    ImageStepDone =>
        /\ ColourExact
        /\ (i_prog = "sign" \/ i_call.with_transparency) => AlphaExact
        /\ (i_prog = "dsign" /\ ~i_call.with_transparency) => i_call.smask_id = 0

C19_Witness ==
    /\ ImageStepDone /\ i_prog = "sign" /\ i_file.w = 2 /\ i_file.h = 2
    /\ AlphaExact
    /\ \E i, j \in 1..4 : FlippedPixels[i][4] # FlippedPixels[j][4]

\* C20: a call on an image of width 0 or height 0 returns an error and leaves
\* the document as it was
C20_ZeroDimensionsRejected ==
    (i_file.ok /\ (i_file.w = 0 \/ i_file.h = 0) /\ i_call # NoCall) =>
        /\ i_doc = i_before
        /\ i_result = "Err"

(***************************************************************************)
(* Properties of create_image_xobject (invoice).                           *)
(***************************************************************************)
\* a call of create_image_xobject has just returned
ImageCallReturned ==
    b_prog = "invoice" /\ inv_call.made /\ (b_pc = "images" \/ inv_call.err)

\* the ids added to the document since the call began
ImageCallAdded == DOMAIN b_doc.objects \ DOMAIN inv_call.before.objects

\* the file passes the checks made before its pixel format is looked at
HeaderRead(file) ==
    file.opens /\ file.len >= 2 /\ file.soi /\ file.len <= MaxJpegBytes
    /\ file.header # "unreadable"

\* C21: create_image_xobject returns an error naming the pixel format for
\* every format other than 8-bit gray, RGB and CMYK; every error (file not
\* opened, no SOI marker, more than 10,000,000 bytes, unreadable header,
\* unsupported format) leaves the document as it was; a success adds exactly
\* one stream, with Filter DCTDecode and the bytes of the file as payload
C21_ImageXObjectOutcomes ==
    ImageCallReturned =>
        LET file == inv_call.file
        IN /\ (HeaderRead(file) /\ file.header \notin {"L8", "RGB24", "CMYK32"}) =>
                  inv_call.err /\ inv_call.names = file.header
           /\ (~file.opens \/ file.len < 2 \/ ~file.soi \/ file.len > MaxJpegBytes
               \/ file.header = "unreadable") => inv_call.err
           /\ inv_call.err => b_doc = inv_call.before
           /\ ~inv_call.err =>
                  /\ ImageCallAdded = {inv_call.id}
                  /\ b_doc.objects[inv_call.id].k = "stream"
                  /\ b_doc.objects[inv_call.id].v["Filter"] = Name("DCTDecode")
                  /\ b_doc.objects[inv_call.id].data = file

C21_Witness ==
    /\ ImageCallReturned /\ inv_call.err /\ inv_call.names = "L16"
    /\ Len(inv_images) >= 1
    /\ inv_call.file.len = MaxJpegBytes
    /\ b_doc = inv_call.before

(***************************************************************************)
(* Properties of the text strings                                          *)
(***************************************************************************)
IsAscii(text) == \A i \in 1..Len(text) : text[i] < 128

\* C22: what decode_text_bytes returns for the bytes of encode_unicode_text(s)
\* is s, for every s (the empty string and characters beyond the BMP
\* included); and a pure-ASCII string written as a literal decodes to itself
C22_Utf16RoundTrip ==
    t_pc = "read" =>
        /\ t_how = "unicode" => t_out = t_text
        /\ t_how = "literal" /\ IsAscii(t_text) => t_out = t_text

C22_Witness ==
    /\ t_pc = "read" /\ t_how = "unicode"
    /\ Len(t_text) >= 2
    /\ t_text[1] > 65535 /\ t_text[2] = 65279
    /\ t_bytes = <<254, 255>> \o UnitBytes(encode_utf16(t_text))
    /\ Len(t_bytes) = 8
    /\ t_out = t_text

(***************************************************************************)
(* Properties of the bookmarks and of the unified store (merge)            *)
(***************************************************************************)
\* the indices of the inputs get_pages found a page in, in input order
RECURSIVE WithPagesUpTo(_)
WithPagesUpTo(n) ==
    IF n = 0 THEN <<>>
    ELSE WithPagesUpTo(n - 1) \o (IF loaded[n].pages # <<>> THEN <<n>> ELSE <<>>)

WithPages == WithPagesUpTo(Len(loaded))

\* id holds, in store objs, the first page of the k-th input
IsFirstPageOf(objs, id, k) ==
    /\ id \in DOMAIN objs
    /\ type_name(objs[id]) = "Page"
    /\ objs[id].v["Content"] = IntV(100 * k + 1)

\* C23: one bookmark per input that has a page, titled Page 1, Page 2, ... in
\* input order; after the merge, final renumbering included, the k-th
\* bookmark targets the first page of the k-th such input, a page of the
\* merged page tree
C23_BookmarksTargetFirstPages ==
    /\ Len(document.bookmarks) = Len(WithPages)
    /\ \A j \in 1..Len(document.bookmarks) : document.bookmarks[j].title = j
    /\ MergeCompleted =>
          \A j \in 1..Len(document.bookmarks) :
              /\ IsFirstPageOf(document.objects, document.bookmarks[j].page, WithPages[j])
              /\ document.bookmarks[j].page \in Range(page_iter(document))

C23_Witness ==
    /\ MergeCompleted
    /\ Len(loaded) >= 2
    /\ loaded[1].pages = <<>>
    /\ Len(document.bookmarks) = 1
    /\ WithPages = <<2>>
    /\ loaded[2].shape.rev
    /\ document.bookmarks[1].page # loaded[2].pages[1]
    /\ IsFirstPageOf(document.objects, document.bookmarks[1].page, 2)

\* the types the collecting loop has an arm of its own for
StructuralTypes == {"Catalog", "Pages", "Page", "Outlines", "Outline"}

\* the loop over documents_objects has run, the final renumbering has not
Collected == pc \in {"check_pages", "check_catalog", "update_catalog", "renumber"}

OfType(objs, t) == {id \in DOMAIN objs : type_name(objs[id]) = t}

\* C24: every input object of a type other than Page, Pages, Catalog, Outline
\* and Outlines is in the unified store under its renumbered id, its content
\* unchanged; no Outline or Outlines object of an input is there; and the
\* store never holds more than one Pages and one Catalog object, exactly one
\* of each once the merge is complete
C24_OtherObjectsCopied ==
    /\ Collected =>
          /\ \A id \in DOMAIN documents_objects :
                type_name(documents_objects[id]) \notin StructuralTypes =>
                    /\ id \in DOMAIN document.objects
                    /\ document.objects[id] = documents_objects[id]
          /\ \A id \in DOMAIN documents_objects :
                type_name(documents_objects[id]) \in {"Outlines", "Outline"} =>
                    id \notin DOMAIN document.objects
    /\ pc \notin {"load", "collect"} =>
          /\ OfType(document.objects, "Outlines") = {}
          /\ OfType(document.objects, "Outline") = {}
          /\ Cardinality(OfType(document.objects, "Pages")) <= 1
          /\ Cardinality(OfType(document.objects, "Catalog")) <= 1
    /\ MergeCompleted =>
          /\ Cardinality(OfType(document.objects, "Pages")) = 1
          /\ Cardinality(OfType(document.objects, "Catalog")) = 1

C24_Witness ==
    /\ pc = "renumber"
    /\ Len(loaded) >= 2
    /\ loaded[1].shape.cat = "high" /\ loaded[2].shape.cat = "high"
    /\ loaded[1].shape.nested
    /\ Cardinality(OfType(documents_objects, "Outlines")) >= 2
    /\ Cardinality(OfType(documents_objects, "Pages")) >= 3
    /\ Cardinality({id \in DOMAIN documents_objects :
                       type_name(documents_objects[id]) \notin StructuralTypes}) >= 2
    /\ Cardinality(OfType(document.objects, "Pages")) = 1

\* the ids in use when the final renumbering has been done: n of them
RenumberedIds == 1..Cardinality(DOMAIN document.objects)

\* the step of lines 166-173 keeps every object there was, but for an
\* /Outlines entry set in one of them, and puts what it adds under ids above n
OutlineStepAddsAbove ==
    (pc = "outline" /\ pc' = "save") =>
        LET n == document.max_id IN
        /\ \A id \in DOMAIN document.objects :
              /\ id \in DOMAIN document'.objects
              /\ \/ document'.objects[id] = document.objects[id]
                 \/ /\ document.objects[id].k = "dict"
                    /\ outline' # 0
                    /\ document'.objects[id] =
                           Dict(DSet(document.objects[id].v, "Outlines", Ref(outline')))
        /\ \A id \in DOMAIN document'.objects \ DOMAIN document.objects : id > n
        /\ outline' # 0 => outline' > n /\ outline' \in DOMAIN document'.objects
        /\ document'.max_id >= n

\* C25: after the final renumbering the ids in use are exactly 1..n and
\* max_id is n; the outline objects made afterwards get ids above n, and no
\* id in use is taken again or overwritten
C25_RenumberedContiguous ==
    /\ [](pc = "outline" =>
             /\ DOMAIN document.objects = RenumberedIds
             /\ document.max_id = Cardinality(DOMAIN document.objects))
    /\ [](pc = "save" =>
             /\ DOMAIN document.objects = RenumberedIds
             /\ document.max_id = Cardinality(DOMAIN document.objects))
    /\ [][OutlineStepAddsAbove]_vars

C25_Witness ==
    /\ pc = "save"
    /\ Len(document.bookmarks) = 2
    /\ outline # 0
    /\ outline + 2 = document.max_id
    /\ DOMAIN document.objects = 1..(outline + 2)
    /\ \E sh \in {loaded[1].shape} : sh.rev

(***************************************************************************)
(* Properties of a's pages                                                 *)
(***************************************************************************)
OpNames(ops) == [i \in DOMAIN ops |-> ops[i].name]

TextBracket == <<"BT", "Tf", "Td", "Tj", "ET">>
ImageBracket == <<"q", "cm", "Do", "Q">>

\* names is a run of whole text brackets and whole image brackets, one after
\* the other
RECURSIVE WellBracketed(_)
WellBracketed(names) ==
    IF names = <<>> THEN TRUE
    ELSE IF Len(names) >= 5 /\ SubSeq(names, 1, 5) = TextBracket
         THEN WellBracketed(SubSeq(names, 6, Len(names)))
    ELSE IF Len(names) >= 4 /\ SubSeq(names, 1, 4) = ImageBracket
         THEN WellBracketed(SubSeq(names, 5, Len(names)))
    ELSE FALSE

\* the operations of the content stream of the i-th page, in Kids order
PageOperations(i) ==
    b_doc.objects[b_doc.objects[BKids[i].v].v["Contents"].v].data

\* C26: in a, every page's content stream, and the pending operation list
\* whenever a page may be broken, is a run of text items, each exactly
\* BT Tf Td Tj ET, and image placements, each exactly q cm Do Q; no bracket
\* is nested in another or cut by a page break
C26_WellBracketed ==
    b_prog = "a" =>
        /\ WellBracketed(OpNames(current_operations))
        /\ \A i \in 1..Len(BKids) : WellBracketed(OpNames(PageOperations(i)))

C26_Witness ==
    /\ ABuilt /\ Len(BKids) >= 2
    /\ \E i \in 1..Len(BKids) :
          /\ Len(PageOperations(i)) >= 14
          /\ \E j \in DOMAIN PageOperations(i) : PageOperations(i)[j].name = "Do"
          /\ WellBracketed(OpNames(PageOperations(i)))

(***************************************************************************)
(* Properties of the page's Contents and of failed calls (dsign and sign)  *)
(***************************************************************************)
\* the page's Contents is a single reference, or an array of references
ContentsOfRefs(page_dict) ==
    /\ "Contents" \in DOMAIN page_dict
    /\ \/ page_dict["Contents"].k = "ref"
       \/ /\ page_dict["Contents"].k = "arr"
          /\ \A i \in DOMAIN page_dict["Contents"].v : page_dict["Contents"].v[i].k = "ref"

\* the references such a Contents lists, in order
ContentsList(page_dict) ==
    IF page_dict["Contents"].k = "ref" THEN <<page_dict["Contents"]>>
    ELSE page_dict["Contents"].v

\* the name the drawing stream under id draws (the operand of its Do)
DrawnName(id) == i_doc.objects[id].data[3].operands[1].v

\* C27: when the page's Contents was a single reference or an array of
\* references, after a call that returned Ok it is an array that lists all of
\* them in their order and then the new drawing stream, last; the drawing
\* streams of repeated calls stand at the end in call order
C27_ContentsAppended ==
    (CallReturnedOk /\ ContentsOfRefs(PageBefore)) =>
        LET new == i_doc.max_id
            list == ContentsList(PageAfter)
            n == Len(i_calls)
        IN /\ "Contents" \in DOMAIN PageAfter
           /\ PageAfter["Contents"].k = "arr"
           /\ PageAfter["Contents"].v = ContentsList(PageBefore) \o <<Ref(new)>>
           /\ new \notin DOMAIN i_before.objects
           /\ i_doc.objects[new].k = "stream"
           /\ i_doc.objects[new].data =
                  DrawOps(i_prog, Raster(i_file.w, i_file.h), i_call.name)
           /\ Len(list) >= n
           /\ \A j \in 1..n : DrawnName(list[Len(list) - n + j].v) = i_calls[j]

C27_Witness ==
    /\ CallReturnedOk
    /\ Len(i_calls) = 2 /\ i_calls[1] # i_calls[2]
    /\ i_prog = "sign"
    /\ ContentsOfRefs(PageBefore)
    /\ Len(ContentsList(PageAfter)) = 3
    /\ ContentsList(PageAfter)[1] = Ref(1)
    /\ DrawnName(ContentsList(PageAfter)[2].v) = i_calls[1]
    /\ DrawnName(ContentsList(PageAfter)[3].v) = i_calls[2]

\* the last call has returned an error
CallFailed == i_pc = "idle" /\ i_result = "Err"

\* C30: a call that returns an error leaves the object store as it was before
\* the call: no soft mask, image or drawing stream of the failed call remains
C30_FailedCallLeavesStore ==
    CallFailed => i_doc.objects = i_before.objects

\* the y operand of the last Td of a list of operations
LastTdY(ops) ==
    LET at == {i \in DOMAIN ops : ops[i].name = "Td"}
        last == CHOOSE i \in at : \A j \in at : j <= i
    IN ops[last].operands[2].v

\* a has just pushed the operations of a_item
AEmitted == b_prog = "a" /\ b_pc = "space"

\* C28: in a, whenever the pending operation list is empty the cursor is at
\* the top of the page body; and every item whose height estimate is at most
\* the body height gets a Td y at or above the bottom margin and at or below
\* the top margin
C28_CursorWithinBody ==
    /\ (b_prog = "a" /\ b_pc # "start" /\ current_operations = <<>>)
          => current_y = PAGE_HEIGHT_PT - PAGE_MARGIN
    /\ (AEmitted /\ item_height_estimate(a_item) <= BodyHeight)
          => /\ LastTdY(current_operations) = current_y
             /\ LastTdY(current_operations) >= PAGE_MARGIN
             /\ LastTdY(current_operations) <= PAGE_HEIGHT_PT - PAGE_MARGIN

C28_Witness ==
    /\ AEmitted /\ Len(a_items) = 3
    /\ a_added >= 1
    /\ a_item.text = SignatureTrigger
    /\ item_height_estimate(a_item) > a_item.size
    /\ item_height_estimate(a_item) <= BodyHeight
    /\ Len(current_operations) = 14
    /\ LastTdY(current_operations) = current_y
    /\ current_y < PAGE_HEIGHT_PT - PAGE_MARGIN - a_item.size

\* C29: a never makes an empty page: the content stream of every page in
\* Kids has at least one operation; a build over k >= 1 items ends with
\* between 1 and k pages; a build over no item ends with no page and Count 0
C29_NoEmptyPage ==
    b_prog = "a" =>
        /\ \A i \in 1..Len(BKids) : Len(PageOperations(i)) >= 1
        /\ Len(BKids) <= Len(a_items)
        /\ ABuilt =>
              /\ Len(a_items) >= 1 => Len(BKids) >= 1
              /\ Len(a_items) = 0 => Len(BKids) = 0 /\ BCount = 0

C29_Witness ==
    /\ ABuilt /\ Len(a_items) = 3
    /\ Len(BKids) = 3
    /\ a_items[3].space_after > 0
    /\ current_operations = <<>>
    /\ \A i \in 1..3 : Len(PageOperations(i)) >= 5

====
